---------------------------- MODULE Spec2Model ----------------------------
(***************************************************************************)
(* A model of razer-ctl: the librazer command layer (command.rs) driving   *)
(* a laptop's embedded controller through Device::send (device.rs) and     *)
(* Packet (packet.rs), and the blade-helper facade (device.rs).            *)
(*                                                                         *)
(* The laptop is the environment.  It is modelled as a register file (the  *)
(* two thermal zones and the lid logo) that answers every feature report,  *)
(* together with the ways one exchange can go wrong.                       *)
(*                                                                         *)
(* An error value of the code is an anyhow error carrying a message.  The  *)
(* model keeps the class of the check that raised it (see the Err* names). *)
(***************************************************************************)
EXTENDS Integers, Sequences, FiniteSets, TLC

VARIABLES
    device,     \* the laptop's registers behind the hidapi handle
    features,   \* Descriptor.features of the opened device
    op,         \* the last library call and its arguments
    sent,       \* the packets the last call passed to Device::send, in order,
                \* each with its transport steps and what came back for it
    result,     \* what the last call returned
    callers     \* where each logical caller of the handle is in Device::send

vars == <<device, features, op, sent, result, callers>>

-----------------------------------------------------------------------------
(* command.rs, mod cmd: the 16-bit command codes.                          *)

SET_PERF_MODE == 3330
GET_PERF_MODE == 3458
SET_BOOST == 3335
GET_BOOST == 3463
SET_FAN_RPM == 3329
GET_FAN_RPM == 3457
SET_MAX_FAN_SPEED == 1807
GET_MAX_FAN_SPEED == 1935
SET_LOGO_POWER == 768
GET_LOGO_POWER == 896
SET_LOGO_MODE == 770
GET_LOGO_MODE == 898
SET_KBD_BRIGHTNESS == 771
GET_KBD_BRIGHTNESS == 899
SET_LIGHTS_ALWAYS_ON == 4
GET_LIGHTS_ALWAYS_ON == 132
SET_BATTERY_CARE == 1810
GET_BATTERY_CARE == 1938

-----------------------------------------------------------------------------
(* Results.  Ok(v) carries the returned value as a tuple (<<>> for unit).  *)

Ok(v) == [kind |-> "Ok", val |-> v]
Err(k) == [kind |-> k, val |-> <<>>]
IsOk(r) == r.kind = "Ok"

\* ensure!/bail! on a mode or range precondition in command.rs
ErrPreconditionFailed == "PreconditionFailed"
\* ensure! on the response's argument bytes, and the logo getters' bail!
ErrProtocol == "ProtocolError"
\* a TryFrom<u8> of types.rs that bails
ErrInvalidValue == "InvalidValue"
\* an index past the end of get_args(): the thread panics
ErrPanic == "Panic"
\* the facade's feature gate
ErrFeatureNotSupported == "FeatureNotSupported"

-----------------------------------------------------------------------------
(* types.rs: the enumerations, `as u8` and TryFrom<u8>.                    *)

PerfModes == {"Balanced", "Silent", "Custom"}
FanModes == {"Auto", "Manual"}
CpuBoosts == {"Low", "Medium", "High", "Boost", "Overclock"}
GpuBoosts == {"Low", "Medium", "High"}
MaxFanSpeedModes == {"Enable", "Disable"}
LogoModes == {"Off", "Breathing", "Static"}
LightsAlwaysOnModes == {"Enable", "Disable"}
BatteryCares == {"Disable", "Enable"}

PerfModeByte(m) == CASE m = "Balanced" -> 0 [] m = "Silent" -> 5 [] m = "Custom" -> 4
FanModeByte(m) == CASE m = "Auto" -> 0 [] m = "Manual" -> 1
CpuBoostByte(b) ==
    CASE b = "Low" -> 0 [] b = "Medium" -> 1 [] b = "High" -> 2
      [] b = "Boost" -> 3 [] b = "Overclock" -> 4
GpuBoostByte(b) == CASE b = "Low" -> 0 [] b = "Medium" -> 1 [] b = "High" -> 2
MaxFanSpeedModeByte(m) == CASE m = "Enable" -> 2 [] m = "Disable" -> 0
LightsAlwaysOnByte(m) == CASE m = "Enable" -> 3 [] m = "Disable" -> 0
BatteryCareByte(m) == CASE m = "Disable" -> 80 [] m = "Enable" -> 208
ClusterByte(c) == CASE c = "Cpu" -> 1 [] c = "Gpu" -> 2
FanZoneByte(z) == CASE z = "Zone1" -> 1 [] z = "Zone2" -> 2

PerfModeTryFrom(b) ==
    CASE b = 0 -> Ok(<<"Balanced">>) [] b = 5 -> Ok(<<"Silent">>)
      [] b = 4 -> Ok(<<"Custom">>) [] OTHER -> Err(ErrInvalidValue)
FanModeTryFrom(b) ==
    CASE b = 0 -> Ok(<<"Auto">>) [] b = 1 -> Ok(<<"Manual">>)
      [] OTHER -> Err(ErrInvalidValue)
CpuBoostTryFrom(b) ==
    CASE b = 0 -> Ok(<<"Low">>) [] b = 1 -> Ok(<<"Medium">>) [] b = 2 -> Ok(<<"High">>)
      [] b = 3 -> Ok(<<"Boost">>) [] b = 4 -> Ok(<<"Overclock">>)
      [] OTHER -> Err(ErrInvalidValue)
GpuBoostTryFrom(b) ==
    CASE b = 0 -> Ok(<<"Low">>) [] b = 1 -> Ok(<<"Medium">>) [] b = 2 -> Ok(<<"High">>)
      [] OTHER -> Err(ErrInvalidValue)
LightsAlwaysOnTryFrom(b) ==
    CASE b = 0 -> Ok(<<"Disable">>) [] b = 3 -> Ok(<<"Enable">>)
      [] OTHER -> Err(ErrInvalidValue)
\* variant: BatteryCare decoded from the top bit alone, the threshold bits
\* ignored
BatteryCareTryFromTopBit(b) ==
    IF b >= 128 THEN Ok(<<"Enable">>) ELSE Ok(<<"Disable">>)
BatteryCareTryFrom(b) ==
    CASE b = 80 -> Ok(<<"Disable">>) [] b = 208 -> Ok(<<"Enable">>)
      [] OTHER -> Err(ErrInvalidValue)
MaxFanSpeedModeTryFrom(b) ==
    CASE b = 2 -> Ok(<<"Enable">>) [] b = 0 -> Ok(<<"Disable">>)
      [] OTHER -> Err(ErrInvalidValue)


-----------------------------------------------------------------------------
(* packet.rs: the 90-byte frame.                                           *)

\* [u8; 80]
ArgsLen == 80

StatusNew == 0
StatusBusy == 1
StatusSuccessful == 2
StatusFailure == 3
StatusTimeout == 4
StatusNotSupported == 5

\* u8 ^ u8, bit by bit
Xor8(a, b) ==
    IF b = 0 THEN a
    ELSE IF a = 0 THEN b
    ELSE LET z(k) == (((a \div (2 ^ k)) % 2) + ((b \div (2 ^ k)) % 2)) % 2
         IN  z(0) + (2 * z(1)) + (4 * z(2)) + (8 * z(3)) + (16 * z(4))
               + (32 * z(5)) + (64 * z(6)) + (128 * z(7))

\* the XOR of bytes[lo..hi]; XOR is associative, so the fold of the loop is
\* computed by halves
RECURSIVE XorRange(_, _, _)
XorRange(bytes, lo, hi) ==
    IF lo = hi THEN bytes[lo]
    ELSE LET mid == (lo + hi) \div 2
             left == XorRange(bytes, lo, mid)
             right == XorRange(bytes, mid + 1, hi)
         IN  Xor8(left, right)

\* variant: the status and id bytes are folded in as well
calculate_crc_with_id(p) ==
    LET head == <<p.status, p.id, p.remaining_packets % 256, p.remaining_packets \div 256,
                  p.protocol_type, p.data_size, p.command_class, p.command_id>>
        bytes == head \o p.args
    IN  Xor8(0, XorRange(bytes, 1, Len(bytes)))

\* crc ^= each of remaining_packets (low, high), protocol_type, data_size,
\* command_class, command_id, then every byte of args
calculate_crc(p) ==
    LET head == <<p.remaining_packets % 256, p.remaining_packets \div 256,
                  p.protocol_type, p.data_size, p.command_class, p.command_id>>
        bytes == head \o p.args
    IN  Xor8(0, XorRange(bytes, 1, Len(bytes)))

\* [0x00; 80]
Zero16 == <<0, 0, 0, 0, 0, 0, 0, 0, 0, 0, 0, 0, 0, 0, 0, 0>>
ZeroArgs == SubSeq(Zero16 \o Zero16 \o Zero16 \o Zero16 \o Zero16 \o Zero16, 1, ArgsLen)

\* args_buffer[..args.len()].copy_from_slice(args), for args of at most 80 bytes
ArgsBuffer(args) == args \o SubSeq(ZeroArgs, 1, ArgsLen - Len(args))

\* Packet::new; id is the byte rand::thread_rng().gen() drew
PacketNew(command, args, id) ==
    LET packet == [status |-> StatusNew,
                   id |-> id,
                   remaining_packets |-> 0,
                   protocol_type |-> 0,
                   data_size |-> (Len(args) % 256),
                   command_class |-> (command \div 256) % 256,
                   command_id |-> (command % 256),
                   args |-> ArgsBuffer(args),
                   crc |-> 0,
                   reserved |-> 0]
    IN  [packet EXCEPT !.crc = calculate_crc(packet)]

\* &self.args[..self.data_size as usize]
get_args(p) == SubSeq(p.args, 1, p.data_size)

\* the 16-bit command code of a packet
CommandOf(p) == (p.command_class * 256) + p.command_id

ErrResponseMismatch == "ResponseMismatch"
ErrCommandNotSupported == "CommandNotSupported"
ErrDeviceBusy == "DeviceBusy"
ErrCommandFailed == "CommandFailed"
ErrCommandTimeout == "CommandTimeout"
ErrUnknownStatus == "UnknownStatus"

\* variant: the transaction id is not compared
CorrelatedNoId(self, report) ==
    <<report.command_class, report.command_id>> = <<self.command_class, self.command_id>>

\* (report.command_class, report.command_id, report.id)
\*     == (self.command_class, self.command_id, self.id)
Correlated(self, report) ==
    <<report.command_class, report.command_id, report.id>>
        = <<self.command_class, self.command_id, self.id>>

\* variant: no command is excepted from the remaining_packets comparison
RemainingMatchesStrict(self, report) ==
    self.remaining_packets = report.remaining_packets

\* self.remaining_packets == report.remaining_packets
\*     || (class, id) == (0x07, 0x92) || (class, id) == (0x07, 0x8f)
RemainingMatches(self, report) ==
    \/ self.remaining_packets = report.remaining_packets
    \/ <<self.command_class, self.command_id>> = <<7, 146>>
    \/ <<self.command_class, self.command_id>> = <<7, 143>>

\* variant: a Busy status is let through like Successful
StatusResultBusyOk(self) ==
    IF self.status \in {StatusSuccessful, StatusBusy} THEN [kind |-> "Ok", val |-> self]
    ELSE IF self.status = StatusNotSupported THEN Err(ErrCommandNotSupported)
    ELSE IF self.status = StatusFailure THEN Err(ErrCommandFailed)
    ELSE IF self.status = StatusTimeout THEN Err(ErrCommandTimeout)
    ELSE [kind |-> ErrUnknownStatus, val |-> <<self.status>>]

\* match self.status { .. }; Ok(self)
StatusResult(self) ==
    IF self.status = StatusSuccessful THEN [kind |-> "Ok", val |-> self]
    ELSE IF self.status = StatusNotSupported THEN Err(ErrCommandNotSupported)
    ELSE IF self.status = StatusBusy THEN Err(ErrDeviceBusy)
    ELSE IF self.status = StatusFailure THEN Err(ErrCommandFailed)
    ELSE IF self.status = StatusTimeout THEN Err(ErrCommandTimeout)
    ELSE [kind |-> ErrUnknownStatus, val |-> <<self.status>>]

\* variant: the status byte is decoded before the response is compared with
\* the request
ensure_matches_report_status_first(self, report) ==
    IF self.status # StatusSuccessful THEN StatusResult(self)
    ELSE IF ~Correlated(self, report) THEN Err(ErrResponseMismatch)
    ELSE IF ~RemainingMatches(self, report) THEN Err(ErrResponseMismatch)
    ELSE [kind |-> "Ok", val |-> self]

\* Packet::ensure_matches_report; Ok carries the response packet itself
ensure_matches_report(self, report) ==
    IF ~Correlated(self, report) THEN Err(ErrResponseMismatch)
    ELSE IF ~RemainingMatches(self, report) THEN Err(ErrResponseMismatch)
    ELSE StatusResult(self)

-----------------------------------------------------------------------------
(* The laptop (environment).  A feature report the controller accepts      *)
(* writes the addressed register; a read answers from the registers.  The  *)
(* registers no property observes (boost, max fan speed, keyboard, lights, *)
(* battery care) are not kept: a read of one answers any byte of RegBytes. *)

\* what can happen to one exchange
Faults == {"none", "busy", "timeout", "noecho", "short", "more"}

\* the bytes an unobserved register may hold
RegBytes == {0, 1, 2, 3, 4, 5, 80, 208}

\* the byte of a garbled answer
BadByte == 238

\* the register file carries the two fan-speed registers (where it does not,
\* a fan-speed register may read back as any byte)
TracksRpm(d) == "rpm" \in DOMAIN d

\* the register file carries the registers behind the single-packet reads
\* (where it does not, such a register may read back as any byte of RegBytes)
TracksRegs(d) == "regs" \in DOMAIN d

\* the ways this laptop's controller is seen to fail; any of Faults unless the
\* register file names them
FaultsOf(d) == IF "faults" \in DOMAIN d THEN d.faults ELSE Faults

\* the register file after the controller has accepted (command, a)
Accept(d, command, a) ==
    IF command = SET_PERF_MODE /\ Len(a) = 4 /\ a[2] \in {1, 2}
    THEN [d EXCEPT !.zone[a[2]] = [perf |-> a[3], fan |-> a[4]]]
    ELSE IF command = SET_LOGO_POWER /\ Len(a) = 3
    THEN [d EXCEPT !.logo.power = a[3]]
    ELSE IF command = SET_LOGO_MODE /\ Len(a) = 3
    THEN [d EXCEPT !.logo.pattern = a[3]]
    ELSE IF command = SET_FAN_RPM /\ Len(a) = 3 /\ a[2] \in {1, 2} /\ TracksRpm(d)
    THEN [d EXCEPT !.rpm[a[2]] = a[3]]
    ELSE IF command = SET_BOOST /\ Len(a) = 3 /\ a[2] \in {1, 2} /\ TracksRegs(d)
    THEN [d EXCEPT !.regs.boost[a[2]] = a[3]]
    ELSE IF command = SET_KBD_BRIGHTNESS /\ Len(a) = 3 /\ TracksRegs(d)
    THEN [d EXCEPT !.regs.kbd = a[3]]
    ELSE IF command = SET_LIGHTS_ALWAYS_ON /\ Len(a) = 2 /\ TracksRegs(d)
    THEN [d EXCEPT !.regs.lights = a[1]]
    ELSE IF command = SET_MAX_FAN_SPEED /\ Len(a) = 1 /\ TracksRegs(d)
    THEN [d EXCEPT !.regs.max_fan = a[1]]
    ELSE IF command = SET_BATTERY_CARE /\ Len(a) = 1 /\ TracksRegs(d)
    THEN [d EXCEPT !.regs.battery = a[1]]
    ELSE d

\* the argument bytes of the controller's answers to (command, a)
Answers(d, command, a) ==
    IF command = GET_PERF_MODE /\ Len(a) = 4 /\ a[2] \in {1, 2}
    THEN {<<a[1], a[2], d.zone[a[2]].perf, d.zone[a[2]].fan>>}
    ELSE IF command = GET_LOGO_POWER /\ Len(a) = 3
    THEN {<<a[1], a[2], d.logo.power>>}
    ELSE IF command = GET_LOGO_MODE /\ Len(a) = 3
    THEN {<<a[1], a[2], d.logo.pattern>>}
    ELSE IF command = GET_FAN_RPM /\ Len(a) = 3 /\ a[2] \in {1, 2} /\ TracksRpm(d)
    THEN {<<a[1], a[2], d.rpm[a[2]]>>}
    ELSE IF command = GET_BOOST /\ Len(a) = 3 /\ a[2] \in {1, 2} /\ TracksRegs(d)
    THEN {<<a[1], a[2], d.regs.boost[a[2]]>>}
    ELSE IF command = GET_KBD_BRIGHTNESS /\ Len(a) = 3 /\ TracksRegs(d)
    THEN {<<a[1], a[2], d.regs.kbd>>}
    ELSE IF command = GET_LIGHTS_ALWAYS_ON /\ Len(a) = 2 /\ TracksRegs(d)
    THEN {<<d.regs.lights, a[2]>>}
    ELSE IF command = GET_MAX_FAN_SPEED /\ Len(a) = 1 /\ TracksRegs(d)
    THEN {<<d.regs.max_fan>>}
    ELSE IF command = GET_BATTERY_CARE /\ Len(a) = 1 /\ TracksRegs(d)
    THEN {<<d.regs.battery>>}
    ELSE IF command \in {GET_BOOST, GET_FAN_RPM, GET_KBD_BRIGHTNESS} /\ Len(a) = 3
    THEN {<<a[1], a[2], b>> : b \in RegBytes}
    ELSE IF command = GET_LIGHTS_ALWAYS_ON /\ Len(a) = 2
    THEN {<<b, a[2]>> : b \in RegBytes}
    ELSE IF command \in {GET_MAX_FAN_SPEED, GET_BATTERY_CARE} /\ Len(a) = 1
    THEN {<<b>> : b \in RegBytes}
    ELSE {a}

\* a response frame to `report` with the given status and argument bytes
Response(report, status, a) ==
    [report EXCEPT !.status = status, !.data_size = Len(a), !.args = ArgsBuffer(a)]

\* the controller's possible reactions to one report: registers and response
Firmware(d, report) ==
    LET command == CommandOf(report)
        a == get_args(report)
    IN  UNION {
          IF f = "none"
          THEN {[dev |-> Accept(d, command, a),
                 response |-> Response(report, StatusSuccessful, x)]
                  : x \in Answers(d, command, a)}
          ELSE IF f = "busy"
          THEN {[dev |-> d, response |-> Response(report, StatusBusy, a)]}
          ELSE IF f = "timeout"
          THEN {[dev |-> d, response |-> Response(report, StatusTimeout, a)]}
          ELSE IF f = "more"
          THEN {[dev |-> Accept(d, command, a),
                 response |-> [Response(report, StatusSuccessful, x)
                                 EXCEPT !.remaining_packets = 1]]
                  : x \in Answers(d, command, a)}
          ELSE IF f = "noecho"
          THEN {[dev |-> d,
                 response |-> Response(report, StatusSuccessful,
                                       [i \in 1..Len(a) |-> BadByte])]}
          ELSE IF f = "cut"
          THEN {[dev |-> Accept(d, command, a),
                 response |-> [Response(report, StatusSuccessful, x)
                                 EXCEPT !.data_size = d.declares]]
                  : x \in Answers(d, command, a)}
          ELSE {[dev |-> d, response |-> Response(report, StatusSuccessful, <<>>)]}
          : f \in FaultsOf(d) }

-----------------------------------------------------------------------------
(* device.rs: Device::send, one feature-report round trip.                 *)

ErrHid == "Hid"
ErrInvalidDataSize == "InvalidDataSize"

\* what hidapi can do with one round trip
Links == {"up", "write_fails", "read_fails", "read_short"}

\* the ways this laptop's link is seen to fail; any of Links unless the register
\* file names them
LinksOf(d) == IF "links" \in DOMAIN d THEN d.links ELSE Links

\* the transport steps of send up to send_feature_report(..)?
WriteSteps == <<"sleep_1000us", "send_feature_report">>

\* the transport steps of send up to get_feature_report(..)?
ReadSteps == WriteSteps \o <<"sleep_2000us", "get_feature_report">>

\* the status and remaining_packets of the frame that was read
FrameOf(response) == <<response.status, response.remaining_packets>>

\* variant: a Busy answer is followed by a second round trip
send_retry_busy(d, report) ==
    UNION {
      IF ensure_matches_report(o.response, report) = Err(ErrDeviceBusy)
      THEN {[dev |-> o2.dev, res |-> ensure_matches_report(o2.response, report),
             io |-> ReadSteps \o ReadSteps, frame |-> FrameOf(o2.response)]
              : o2 \in Firmware(o.dev, report)}
      ELSE {[dev |-> o.dev, res |-> ensure_matches_report(o.response, report),
             io |-> ReadSteps, frame |-> FrameOf(o.response)]}
      : o \in Firmware(d, report) }

\* Device::send; io is the order of its transport steps
send(d, report) ==
    UNION {
      IF l = "write_fails"
      THEN {[dev |-> d, res |-> Err(ErrHid), io |-> WriteSteps, frame |-> <<>>]}
      ELSE IF l = "read_fails"
      THEN {[dev |-> d, res |-> Err(ErrHid), io |-> ReadSteps, frame |-> <<>>]}
      ELSE IF l = "read_short"
      THEN {[dev |-> d, res |-> Err(ErrInvalidDataSize), io |-> ReadSteps,
             frame |-> <<>>]}
      ELSE {[dev |-> o.dev, res |-> ensure_matches_report(o.response, report),
             io |-> ReadSteps, frame |-> FrameOf(o.response)]
              : o \in Firmware(d, report)}
      : l \in LinksOf(d) }

-----------------------------------------------------------------------------
(* command.rs.  A run is the state of one library call under way: the      *)
(* registers, the packets passed to send so far, and the value or error so *)
(* far.  Each function maps a run to the set of runs it can end in; an Err *)
(* run is handed on unchanged, as the `?` operator does.                   *)

Start(d) == [dev |-> d, sent |-> <<>>, res |-> Ok(<<>>)]

\* the correlation bytes Packet::new may draw
Ids == {0, 255}

\* what the caller got back for one report: the response's args, or the error
ReplyOf(res) == IF IsOk(res) THEN Ok(get_args(res.val)) ELSE res

\* device.send(Packet::new(command, args))
Exchange(r, command, args) ==
    UNION {
      LET report == PacketNew(command, args, id)
      IN  {[dev |-> o.dev,
            sent |-> Append(r.sent, [command |-> CommandOf(report),
                                     args |-> get_args(report),
                                     reply |-> ReplyOf(o.res),
                                     io |-> o.io,
                                     frame |-> o.frame]),
            res |-> o.res] : o \in send(r.dev, report)}
      : id \in Ids }

\* <[u8]>::starts_with
StartsWith(s, prefix) ==
    Len(prefix) <= Len(s) /\ SubSeq(s, 1, Len(prefix)) = prefix

\* variant: the answer is taken without comparing it to the request
EchoCheckNone(response, args) == Ok(response)

\* ensure!(response.get_args().starts_with(args))
EchoCheck(response, args) ==
    IF StartsWith(get_args(response), args) THEN Ok(response) ELSE Err(ErrProtocol)

\* .map(|_| ())
Unit(x) == IF IsOk(x.res) THEN [x EXCEPT !.res = Ok(<<>>)] ELSE x

send_command(r, command, args) ==
    {IF IsOk(x.res) THEN [x EXCEPT !.res = EchoCheck(x.res.val, args)] ELSE x
       : x \in Exchange(r, command, args)}

\* variant: the local check is left out
ManualAllowedAlways(perf_mode, fan_mode) == TRUE

\* if (fan_mode == FanMode::Manual) && (perf_mode != PerfMode::Balanced) { bail! }
ManualAllowed(perf_mode, fan_mode) ==
    ~(fan_mode = "Manual" /\ perf_mode # "Balanced")

\* variant: both packets address zone 1
PerfModeArgsZone1(zone, perf_mode, fan_mode) ==
    <<1, 1, PerfModeByte(perf_mode), FanModeByte(fan_mode)>>

\* the args of one zone's 0x0d02
PerfModeArgs(zone, perf_mode, fan_mode) ==
    <<1, zone, PerfModeByte(perf_mode), FanModeByte(fan_mode)>>

\* variant: zone 2 is written whatever became of zone 1
set_perf_mode_internal_both(r, perf_mode, fan_mode) ==
    IF ~ManualAllowed(perf_mode, fan_mode)
    THEN {[r EXCEPT !.res = Err(ErrPreconditionFailed)]}
    ELSE UNION {
           {IF IsOk(x.res) THEN Unit(y) ELSE [y EXCEPT !.res = x.res]
              : y \in send_command([x EXCEPT !.res = Ok(<<>>)], SET_PERF_MODE,
                                   PerfModeArgs(2, perf_mode, fan_mode))}
           : x \in send_command(r, SET_PERF_MODE, PerfModeArgs(1, perf_mode, fan_mode)) }

set_perf_mode_internal(r, perf_mode, fan_mode) ==
    IF ~ManualAllowed(perf_mode, fan_mode)
    THEN {[r EXCEPT !.res = Err(ErrPreconditionFailed)]}
    ELSE UNION {
           IF IsOk(x.res)
           THEN {Unit(y) : y \in send_command(x, SET_PERF_MODE,
                                              PerfModeArgs(2, perf_mode, fan_mode))}
           ELSE {x}
           : x \in send_command(r, SET_PERF_MODE, PerfModeArgs(1, perf_mode, fan_mode)) }

\* the fan mode set_perf_mode passes on
DirectFanMode == "Auto"

set_perf_mode(r, perf_mode) == set_perf_mode_internal(r, perf_mode, DirectFanMode)

\* the closure of get_perf_mode: decode args[2] and args[3] of one response
DecodeZone(response) ==
    LET a == get_args(response)
    IN  IF Len(a) < 3 THEN Err(ErrPanic)
        ELSE IF ~IsOk(PerfModeTryFrom(a[3])) THEN PerfModeTryFrom(a[3])
        ELSE IF Len(a) < 4 THEN Err(ErrPanic)
        ELSE IF ~IsOk(FanModeTryFrom(a[4])) THEN FanModeTryFrom(a[4])
        ELSE Ok(<<PerfModeTryFrom(a[3]).val[1], FanModeTryFrom(a[4]).val[1]>>)

ReadZone(r, zone) ==
    {IF IsOk(x.res) THEN [x EXCEPT !.res = DecodeZone(x.res.val)] ELSE x
       : x \in Exchange(r, GET_PERF_MODE, <<0, zone, 0, 0>>)}

\* variant: zone 1 is returned without the comparison
ZonesAgreeFirst(first, second) == Ok(first)

\* variant: the zones are compared on the perf mode alone
ZonesAgreeOnPerf(first, second) ==
    IF first[1] = second[1] THEN Ok(first) ELSE Err(ErrPreconditionFailed)

\* ensure!(results[0] == results[1]); Ok(results[0])
ZonesAgree(first, second) ==
    IF first = second THEN Ok(first) ELSE Err(ErrPreconditionFailed)

get_perf_mode(r) ==
    UNION {
      IF IsOk(x.res)
      THEN {IF IsOk(y.res) THEN [y EXCEPT !.res = ZonesAgree(x.res.val, y.res.val)]
            ELSE y : y \in ReadZone(x, 2)}
      ELSE {x}
      : x \in ReadZone(r, 1) }

\* variant: only the fan mode is compared
BoostPreconditionFanOnly(mode) == mode[2] = "Auto"

\* get_perf_mode(device)? == (PerfMode::Custom, FanMode::Auto)
BoostPrecondition(mode) == mode = <<"Custom", "Auto">>

set_boost_internal(r, cluster, boost) ==
    LET args == <<0, ClusterByte(cluster), boost>>
    IN  UNION {
          IF ~IsOk(g.res) THEN {g}
          ELSE IF ~BoostPrecondition(g.res.val)
          THEN {[g EXCEPT !.res = Err(ErrPreconditionFailed)]}
          ELSE {Unit(x) : x \in send_command(g, SET_BOOST, args)}
          : g \in get_perf_mode(r) }

\* ensure!(response.get_args()[1] == key); Ok(response.get_args()[2])
KeyedByte(response, key) ==
    LET a == get_args(response)
    IN  IF Len(a) < 2 THEN Err(ErrPanic)
        ELSE IF a[2] # key THEN Err(ErrProtocol)
        ELSE IF Len(a) < 3 THEN Err(ErrPanic)
        ELSE Ok(<<a[3]>>)

get_boost_internal(r, cluster) ==
    {IF IsOk(x.res) THEN [x EXCEPT !.res = KeyedByte(x.res.val, ClusterByte(cluster))]
     ELSE x : x \in Exchange(r, GET_BOOST, <<0, ClusterByte(cluster), 0>>)}

set_cpu_boost(r, boost) == set_boost_internal(r, "Cpu", CpuBoostByte(boost))

set_gpu_boost(r, boost) == set_boost_internal(r, "Gpu", GpuBoostByte(boost))

get_cpu_boost(r) ==
    {IF IsOk(x.res) THEN [x EXCEPT !.res = CpuBoostTryFrom(x.res.val[1])] ELSE x
       : x \in get_boost_internal(r, "Cpu")}

get_gpu_boost(r) ==
    {IF IsOk(x.res) THEN [x EXCEPT !.res = GpuBoostTryFrom(x.res.val[1])] ELSE x
       : x \in get_boost_internal(r, "Gpu")}

\* variant: the upper edge is off by one
FanRpmInRangeLoose(rpm) == rpm \in 2000..5001

\* (2000..=5000).contains(&rpm)
FanRpmInRange(rpm) == rpm \in 2000..5000

\* variant: only the perf mode is compared
FanRpmPreconditionPerfOnly(mode) == mode[1] = "Balanced"

\* get_perf_mode(device)? == (PerfMode::Balanced, FanMode::Manual)
FanRpmPrecondition(mode) == mode = <<"Balanced", "Manual">>

\* variant: the quotient is rounded to nearest
RpmByteRounded(rpm) == ((rpm + 50) \div 100) % 256

\* (rpm / 100) as u8
RpmByte(rpm) == (rpm \div 100) % 256

\* the args of one zone's 0x0d01
FanRpmArgs(zone, rpm) == <<0, FanZoneByte(zone), RpmByte(rpm)>>

set_fan_rpm(r, rpm) ==
    IF ~FanRpmInRange(rpm) THEN {[r EXCEPT !.res = Err(ErrPreconditionFailed)]}
    ELSE UNION {
           IF ~IsOk(g.res) THEN {g}
           ELSE IF ~FanRpmPrecondition(g.res.val)
           THEN {[g EXCEPT !.res = Err(ErrPreconditionFailed)]}
           ELSE UNION {
                  IF IsOk(x.res)
                  THEN {Unit(y) : y \in send_command(x, SET_FAN_RPM, FanRpmArgs("Zone2", rpm))}
                  ELSE {x}
                  : x \in send_command(g, SET_FAN_RPM, FanRpmArgs("Zone1", rpm)) }
           : g \in get_perf_mode(r) }

\* Ok(response.get_args()[2] as u16 * 100)
RpmOf(res) == IF IsOk(res) THEN Ok(<<res.val[1] * 100>>) ELSE res

get_fan_rpm(r, fan_zone) ==
    {IF IsOk(x.res)
     THEN [x EXCEPT !.res = RpmOf(KeyedByte(x.res.val, FanZoneByte(fan_zone)))]
     ELSE x : x \in Exchange(r, GET_FAN_RPM, <<0, FanZoneByte(fan_zone), 0>>)}

\* get_perf_mode(device)?.0 == PerfMode::Custom
MaxFanPrecondition(mode) == mode[1] = "Custom"

set_max_fan_speed_mode(r, mode) ==
    UNION {
      IF ~IsOk(g.res) THEN {g}
      ELSE IF ~MaxFanPrecondition(g.res.val)
      THEN {[g EXCEPT !.res = Err(ErrPreconditionFailed)]}
      ELSE {Unit(x) : x \in send_command(g, SET_MAX_FAN_SPEED,
                                         <<MaxFanSpeedModeByte(mode)>>)}
      : g \in get_perf_mode(r) }

\* variant: the byte is taken from the args buffer, whatever data_size says
FirstByteOfBuffer(response) == Ok(<<response.args[1]>>)

\* response.get_args()[0]
FirstByte(response) ==
    IF Len(get_args(response)) < 1 THEN Err(ErrPanic)
    ELSE Ok(<<get_args(response)[1]>>)

get_max_fan_speed_mode(r) ==
    {IF ~IsOk(x.res) THEN x
     ELSE IF ~IsOk(FirstByte(x.res.val)) THEN [x EXCEPT !.res = FirstByte(x.res.val)]
     ELSE [x EXCEPT !.res = MaxFanSpeedModeTryFrom(FirstByte(x.res.val).val[1])]
       : x \in Exchange(r, GET_MAX_FAN_SPEED, <<0>>)}

\* variant: the perf mode is not looked at
FanModePreconditionNone(mode) == TRUE

\* get_perf_mode(device)?.0 == PerfMode::Balanced
FanModePrecondition(mode) == mode[1] = "Balanced"

\* variant: the fan mode is written beside the perf mode that was read,
\* whichever it is
set_fan_mode_keeping_perf(r, mode) ==
    UNION {
      IF ~IsOk(g.res) THEN {g}
      ELSE UNION {
             IF IsOk(x.res)
             THEN {Unit(y) : y \in send_command(x, SET_PERF_MODE,
                                                PerfModeArgs(2, g.res.val[1], mode))}
             ELSE {x}
             : x \in send_command(g, SET_PERF_MODE,
                                  PerfModeArgs(1, g.res.val[1], mode)) }
      : g \in get_perf_mode(r) }

set_fan_mode(r, mode) ==
    UNION {
      IF ~IsOk(g.res) THEN {g}
      ELSE IF ~FanModePrecondition(g.res.val)
      THEN {[g EXCEPT !.res = Err(ErrPreconditionFailed)]}
      ELSE set_perf_mode_internal(g, "Balanced", mode)
      : g \in get_perf_mode(r) }

custom_command(r, command, args) == {Unit(x) : x \in Exchange(r, command, args)}

\* bail!("Invalid logo mode")
ErrInvalidLogoMode == "InvalidLogoMode"

set_logo_power(r, mode) ==
    IF mode = "Off" THEN send_command(r, SET_LOGO_POWER, <<1, 4, 0>>)
    ELSE send_command(r, SET_LOGO_POWER, <<1, 4, 1>>)

set_logo_mode_internal(r, mode) ==
    IF mode = "Static" THEN send_command(r, SET_LOGO_MODE, <<1, 4, 0>>)
    ELSE IF mode = "Breathing" THEN send_command(r, SET_LOGO_MODE, <<1, 4, 2>>)
    ELSE {[r EXCEPT !.res = Err(ErrInvalidLogoMode)]}

\* match get_args()[2] { 0 => Ok(false), 1 => Ok(true), _ => bail! }
LogoPowerOf(response) ==
    LET a == get_args(response)
    IN  IF Len(a) < 3 THEN Err(ErrPanic)
        ELSE IF a[3] = 0 THEN Ok(<<FALSE>>)
        ELSE IF a[3] = 1 THEN Ok(<<TRUE>>)
        ELSE Err(ErrProtocol)

\* match get_args()[2] { 0 => Ok(Static), 2 => Ok(Breathing), _ => bail! }
LogoPatternOf(response) ==
    LET a == get_args(response)
    IN  IF Len(a) < 3 THEN Err(ErrPanic)
        ELSE IF a[3] = 0 THEN Ok(<<"Static">>)
        ELSE IF a[3] = 2 THEN Ok(<<"Breathing">>)
        ELSE Err(ErrProtocol)

get_logo_power(r) ==
    {IF IsOk(x.res) THEN [x EXCEPT !.res = LogoPowerOf(x.res.val)] ELSE x
       : x \in Exchange(r, GET_LOGO_POWER, <<1, 4, 0>>)}

get_logo_mode_internal(r) ==
    {IF IsOk(x.res) THEN [x EXCEPT !.res = LogoPatternOf(x.res.val)] ELSE x
       : x \in Exchange(r, GET_LOGO_MODE, <<1, 4, 0>>)}

\* variant: the pattern is read whatever the power state
get_logo_mode_always_pattern(r) ==
    UNION {
      IF ~IsOk(x.res) THEN {x}
      ELSE IF x.res.val[1] THEN get_logo_mode_internal(x)
      ELSE {[y EXCEPT !.res = Ok(<<"Off">>)] : y \in get_logo_mode_internal(x)}
      : x \in get_logo_power(r) }

get_logo_mode(r) ==
    UNION {
      IF ~IsOk(x.res) THEN {x}
      ELSE IF x.res.val[1] THEN get_logo_mode_internal(x)
      ELSE {[x EXCEPT !.res = Ok(<<"Off">>)]}
      : x \in get_logo_power(r) }

\* variant: the logo is powered before the pattern is set
set_logo_mode_power_first(r, mode) ==
    IF mode # "Off"
    THEN UNION {
           IF IsOk(x.res) THEN {Unit(y) : y \in set_logo_mode_internal(x, mode)} ELSE {x}
           : x \in set_logo_power(r, mode) }
    ELSE {Unit(y) : y \in set_logo_power(r, mode)}

set_logo_mode(r, mode) ==
    IF mode # "Off"
    THEN UNION {
           IF IsOk(x.res) THEN {Unit(y) : y \in set_logo_power(x, mode)} ELSE {x}
           : x \in set_logo_mode_internal(r, mode) }
    ELSE {Unit(y) : y \in set_logo_power(r, mode)}

get_keyboard_brightness(r) ==
    {IF IsOk(x.res) THEN [x EXCEPT !.res = KeyedByte(x.res.val, 5)] ELSE x
       : x \in Exchange(r, GET_KBD_BRIGHTNESS, <<1, 5, 0>>)}

set_keyboard_brightness(r, brightness) ==
    {Unit(x) : x \in send_command(r, SET_KBD_BRIGHTNESS, <<1, 5, brightness>>)}

get_lights_always_on(r) ==
    {IF ~IsOk(x.res) THEN x
     ELSE IF ~IsOk(FirstByte(x.res.val)) THEN [x EXCEPT !.res = FirstByte(x.res.val)]
     ELSE [x EXCEPT !.res = LightsAlwaysOnTryFrom(FirstByte(x.res.val).val[1])]
       : x \in Exchange(r, GET_LIGHTS_ALWAYS_ON, <<0, 0>>)}

set_lights_always_on(r, lights_always_on) ==
    {Unit(x) : x \in send_command(r, SET_LIGHTS_ALWAYS_ON,
                                  <<LightsAlwaysOnByte(lights_always_on), 0>>)}

get_battery_care(r) ==
    {IF ~IsOk(x.res) THEN x
     ELSE IF ~IsOk(FirstByte(x.res.val)) THEN [x EXCEPT !.res = FirstByte(x.res.val)]
     ELSE [x EXCEPT !.res = BatteryCareTryFrom(FirstByte(x.res.val).val[1])]
       : x \in Exchange(r, GET_BATTERY_CARE, <<0>>)}

set_battery_care(r, mode) ==
    {Unit(x) : x \in send_command(r, SET_BATTERY_CARE, <<BatteryCareByte(mode)>>)}

-----------------------------------------------------------------------------
(* blade-helper device.rs: the facade's typed apply.                       *)

\* feature.rs, feature_list!
AllFeatures ==
    {"battery-care", "lid-logo", "lights-always-on", "kbd-backlight", "fan", "perf"}

\* variant: every feature is taken as listed
supports_any(feats, feature) == TRUE

\* BladeDevice::supports
supports(feats, feature) == feature \in feats

\* Error::FeatureNotSupported(tag)
FeatureNotSupported(feature) == [kind |-> ErrFeatureNotSupported, val |-> <<feature>>]

\* variant: the arm is entered whatever the descriptor lists
GatedNever(r, feats, feature, runs) == runs

\* the arm of apply_setting or get_setting behind a feature gate
Gated(r, feats, feature, runs) ==
    IF ~supports(feats, feature) THEN {[r EXCEPT !.res = FeatureNotSupported(feature)]}
    ELSE runs

\* variant: the fan_mode field of the setting is passed on
apply_perf_mode_with_fan(r, mode, fan_mode) == set_perf_mode_internal(r, mode, fan_mode)

\* SettingValue::PerfMode { mode, .. } => command::set_perf_mode(&self.inner, mode)
apply_perf_mode(r, mode, fan_mode) == set_perf_mode(r, mode)

\* variant: the speed is set before the fan mode
apply_fan_rpm_first(r, mode, rpm) ==
    IF rpm = <<>> THEN set_fan_mode(r, mode)
    ELSE UNION {
           IF ~IsOk(x.res) THEN {x} ELSE set_fan_mode(x, mode)
           : x \in set_fan_rpm(r, rpm[1]) }

\* SettingValue::Fan { mode, rpm }; rpm is <<>> for None and <<n>> for Some(n)
apply_fan(r, mode, rpm) ==
    UNION {
      IF ~IsOk(x.res) \/ rpm = <<>> THEN {x} ELSE set_fan_rpm(x, rpm[1])
      : x \in set_fan_mode(r, mode) }

\* BladeDevice::apply_setting; value is <<variant, fields...>>
apply_setting(r, feats, value) ==
    CASE value[1] = "PerfMode" -> apply_perf_mode(r, value[2], value[3])
      [] value[1] = "CpuBoost" -> set_cpu_boost(r, value[2])
      [] value[1] = "GpuBoost" -> set_gpu_boost(r, value[2])
      [] value[1] = "Fan" -> apply_fan(r, value[2], value[3])
      [] value[1] = "MaxFanSpeed" -> set_max_fan_speed_mode(r, value[2])
      [] value[1] = "KeyboardBrightness" ->
           Gated(r, feats, "kbd-backlight", set_keyboard_brightness(r, value[2]))
      [] value[1] = "LogoMode" ->
           Gated(r, feats, "lid-logo", set_logo_mode(r, value[2]))
      [] value[1] = "BatteryCare" ->
           Gated(r, feats, "battery-care", set_battery_care(r, value[2]))
      [] value[1] = "LightsAlwaysOn" ->
           Gated(r, feats, "lights-always-on", set_lights_always_on(r, value[2]))

\* settings.rs, enum Setting
Settings ==
    {"PerfMode", "CpuBoost", "GpuBoost", "FanMode", "MaxFanSpeed",
     "KeyboardBrightness", "LogoMode", "BatteryCare", "LightsAlwaysOn"}

\* Ok(SettingValue::Variant(value)) of what a getter returned
Tagged(variant, runs) ==
    {IF IsOk(x.res) THEN [x EXCEPT !.res = Ok(<<variant>> \o x.res.val)] ELSE x
       : x \in runs}

\* Setting::FanMode: the fan mode, and the zone 1 speed when it is Manual
get_fan(r) ==
    UNION {
      IF ~IsOk(g.res) THEN {g}
      ELSE IF g.res.val[2] = "Manual"
      THEN {IF IsOk(x.res) THEN [x EXCEPT !.res = Ok(<<"Fan", "Manual", x.res.val>>)]
            ELSE x : x \in get_fan_rpm(g, "Zone1")}
      ELSE {[g EXCEPT !.res = Ok(<<"Fan", g.res.val[2], <<>>>>)]}
      : g \in get_perf_mode(r) }

\* BladeDevice::get_setting
get_setting(r, feats, setting) ==
    CASE setting = "PerfMode" -> Tagged("PerfMode", get_perf_mode(r))
      [] setting = "CpuBoost" -> Tagged("CpuBoost", get_cpu_boost(r))
      [] setting = "GpuBoost" -> Tagged("GpuBoost", get_gpu_boost(r))
      [] setting = "FanMode" -> get_fan(r)
      [] setting = "MaxFanSpeed" -> Tagged("MaxFanSpeed", get_max_fan_speed_mode(r))
      [] setting = "KeyboardBrightness" ->
           Gated(r, feats, "kbd-backlight",
                 Tagged("KeyboardBrightness", get_keyboard_brightness(r)))
      [] setting = "LogoMode" ->
           Gated(r, feats, "lid-logo", Tagged("LogoMode", get_logo_mode(r)))
      [] setting = "BatteryCare" ->
           Gated(r, feats, "battery-care", Tagged("BatteryCare", get_battery_care(r)))
      [] setting = "LightsAlwaysOn" ->
           Gated(r, feats, "lights-always-on",
                 Tagged("LightsAlwaysOn", get_lights_always_on(r)))

\* DeviceState::default(): every field None (<<>>; Some(v) is <<v>>)
DefaultState ==
    [perf_mode |-> <<>>, fan_mode |-> <<>>, cpu_boost |-> <<>>, gpu_boost |-> <<>>,
     fan_rpm |-> <<>>, max_fan_speed |-> <<>>, keyboard_brightness |-> <<>>,
     logo_mode |-> <<>>, battery_care |-> <<>>, lights_always_on |-> <<>>]

\* a getter panicked: the unwinding leaves read_state
Panicked(x) == x.res.kind = ErrPanic

\* variant: a failing read ends read_state with its error
StoreOrFail(st, field, runs) ==
    {IF ~IsOk(x.res) THEN x
     ELSE [x EXCEPT !.res = Ok([st EXCEPT ![field] = x.res.val])] : x \in runs}

\* state.field = getter(..).ok()
Store(st, field, runs) ==
    {IF Panicked(x) THEN x
     ELSE [x EXCEPT !.res = Ok([st EXCEPT ![field] = IF IsOk(x.res) THEN x.res.val
                                                       ELSE <<>>])]
       : x \in runs}

\* one unconditional read of read_state, made in the run x that holds the state
ReadField(x, field, runs) ==
    IF ~IsOk(x.res) THEN {x} ELSE Store(x.res.val, field, runs)

\* one read of read_state behind `if self.supports(feature)`
ReadIfSupported(x, feats, feature, field, runs) ==
    IF ~IsOk(x.res) \/ ~supports(feats, feature) THEN {x}
    ELSE Store(x.res.val, field, runs)

\* if perf_mode == Custom { cpu_boost, gpu_boost }
ReadBoosts(x) ==
    IF ~IsOk(x.res) \/ x.res.val.perf_mode # <<"Custom">> THEN {x}
    ELSE UNION {ReadField(y, "gpu_boost", get_gpu_boost(y))
                  : y \in ReadField(x, "cpu_boost", get_cpu_boost(x))}

\* if fan_mode == Manual { fan_rpm of zone 1 }
ReadRpm(x) ==
    IF ~IsOk(x.res) \/ x.res.val.fan_mode # <<"Manual">> THEN {x}
    ELSE ReadField(x, "fan_rpm", get_fan_rpm(x, "Zone1"))

\* if let Ok((perf_mode, fan_mode)) = get_perf_mode(..) { .. }
ReadPerf(r) ==
    UNION {
      IF Panicked(g) THEN {g}
      ELSE IF ~IsOk(g.res) THEN {[g EXCEPT !.res = Ok(DefaultState)]}
      ELSE UNION {ReadRpm(y)
                    : y \in ReadBoosts([g EXCEPT !.res =
                              Ok([DefaultState EXCEPT !.perf_mode = <<g.res.val[1]>>,
                                                      !.fan_mode = <<g.res.val[2]>>])])}
      : g \in get_perf_mode(r) }

\* BladeDevice::read_state
read_state(r, feats) ==
    LET perf == ReadPerf(r)
        fan == UNION {ReadField(x, "max_fan_speed", get_max_fan_speed_mode(x))
                        : x \in perf}
        kbd == UNION {ReadIfSupported(x, feats, "kbd-backlight", "keyboard_brightness",
                                      get_keyboard_brightness(x)) : x \in fan}
        care == UNION {ReadIfSupported(x, feats, "battery-care", "battery_care",
                                       get_battery_care(x)) : x \in kbd}
        logo == UNION {ReadIfSupported(x, feats, "lid-logo", "logo_mode",
                                       get_logo_mode(x)) : x \in care}
    IN  UNION {ReadIfSupported(x, feats, "lights-always-on", "lights_always_on",
                               get_lights_always_on(x)) : x \in logo}

-----------------------------------------------------------------------------
(* The inputs the calls are made with.                                     *)

\* u16 arguments of set_fan_rpm: both edges of the range, inside and outside
RpmInputs == {1999, 2000, 2500, 2599, 5000, 5001}

\* u8 arguments of set_keyboard_brightness
BrightnessInputs == {0, 255}

\* (command, args) arguments of custom_command
CustomInputs ==
    {<<GET_PERF_MODE, <<0, 1, 0, 0>>>>,
     <<SET_PERF_MODE, <<1, 1, 4, 1>>>>}

\* Option<u16>
RpmOptions == {<<>>, <<1999>>, <<2500>>}

\* the feature sets of the descriptors tried
FeatureSets == {AllFeatures, {"fan", "perf"}}

\* the logical callers of the one open handle
Callers == {"a", "b"}

\* a caller outside send: no packet, nothing read, nothing returned yet
Resting == [pc |-> "out", report |-> <<>>, got |-> <<>>, res |-> Ok(<<>>)]

\* no call has returned a result the caller still holds
NoCall == [name |-> "none", args |-> <<>>]

\* the (perf, fan) bytes a zone may hold when the handle is opened
StartZones == {[perf |-> PerfModeByte(pm), fan |-> FanModeByte(fm)]
                 : <<pm, fm>> \in {<<"Balanced", "Auto">>, <<"Silent", "Auto">>,
                                   <<"Custom", "Auto">>, <<"Balanced", "Manual">>}}

-----------------------------------------------------------------------------
(* The state machine: one action per public call.                          *)

Init ==
    /\ device \in {[zone |-> [z \in {1, 2} |-> m],
                    logo |-> [power |-> 0, pattern |-> 0]] : m \in StartZones}
    /\ features \in FeatureSets
    /\ op = NoCall
    /\ sent = <<>>
    /\ result = Ok(<<>>)
    /\ callers = [c \in Callers |-> Resting]

\* the caller is between two calls
Idle == op = NoCall

\* the call `name(args)` ends in run o
Return(o, name, args) ==
    /\ device' = o.dev
    /\ sent' = o.sent
    /\ result' = o.res
    /\ op' = [name |-> name, args |-> args]
    /\ UNCHANGED <<features, callers>>

SetPerfMode ==
    /\ Idle
    /\ \E m \in PerfModes : \E o \in set_perf_mode(Start(device), m) :
           Return(o, "set_perf_mode", <<m>>)

GetPerfMode ==
    /\ Idle
    /\ \E o \in get_perf_mode(Start(device)) : Return(o, "get_perf_mode", <<>>)

SetCpuBoost ==
    /\ Idle
    /\ \E b \in CpuBoosts : \E o \in set_cpu_boost(Start(device), b) :
           Return(o, "set_cpu_boost", <<b>>)

SetGpuBoost ==
    /\ Idle
    /\ \E b \in GpuBoosts : \E o \in set_gpu_boost(Start(device), b) :
           Return(o, "set_gpu_boost", <<b>>)

GetCpuBoost ==
    /\ Idle
    /\ \E o \in get_cpu_boost(Start(device)) : Return(o, "get_cpu_boost", <<>>)

GetGpuBoost ==
    /\ Idle
    /\ \E o \in get_gpu_boost(Start(device)) : Return(o, "get_gpu_boost", <<>>)

SetFanRpm ==
    /\ Idle
    /\ \E rpm \in RpmInputs : \E o \in set_fan_rpm(Start(device), rpm) :
           Return(o, "set_fan_rpm", <<rpm>>)

GetFanRpm ==
    /\ Idle
    /\ \E z \in {"Zone1", "Zone2"} : \E o \in get_fan_rpm(Start(device), z) :
           Return(o, "get_fan_rpm", <<z>>)

SetMaxFanSpeedMode ==
    /\ Idle
    /\ \E m \in MaxFanSpeedModes : \E o \in set_max_fan_speed_mode(Start(device), m) :
           Return(o, "set_max_fan_speed_mode", <<m>>)

GetMaxFanSpeedMode ==
    /\ Idle
    /\ \E o \in get_max_fan_speed_mode(Start(device)) :
           Return(o, "get_max_fan_speed_mode", <<>>)

SetFanMode ==
    /\ Idle
    /\ \E m \in FanModes : \E o \in set_fan_mode(Start(device), m) :
           Return(o, "set_fan_mode", <<m>>)

CustomCommand ==
    /\ Idle
    /\ \E c \in CustomInputs : \E o \in custom_command(Start(device), c[1], c[2]) :
           Return(o, "custom_command", c)

GetLogoMode ==
    /\ Idle
    /\ \E o \in get_logo_mode(Start(device)) : Return(o, "get_logo_mode", <<>>)

SetLogoMode ==
    /\ Idle
    /\ \E m \in LogoModes : \E o \in set_logo_mode(Start(device), m) :
           Return(o, "set_logo_mode", <<m>>)

GetKeyboardBrightness ==
    /\ Idle
    /\ \E o \in get_keyboard_brightness(Start(device)) :
           Return(o, "get_keyboard_brightness", <<>>)

SetKeyboardBrightness ==
    /\ Idle
    /\ \E b \in BrightnessInputs : \E o \in set_keyboard_brightness(Start(device), b) :
           Return(o, "set_keyboard_brightness", <<b>>)

GetLightsAlwaysOn ==
    /\ Idle
    /\ \E o \in get_lights_always_on(Start(device)) :
           Return(o, "get_lights_always_on", <<>>)

SetLightsAlwaysOn ==
    /\ Idle
    /\ \E m \in LightsAlwaysOnModes : \E o \in set_lights_always_on(Start(device), m) :
           Return(o, "set_lights_always_on", <<m>>)

GetBatteryCare ==
    /\ Idle
    /\ \E o \in get_battery_care(Start(device)) : Return(o, "get_battery_care", <<>>)

SetBatteryCare ==
    /\ Idle
    /\ \E m \in BatteryCares : \E o \in set_battery_care(Start(device), m) :
           Return(o, "set_battery_care", <<m>>)

\* the call apply_setting(value)
Apply(value) ==
    \E o \in apply_setting(Start(device), features, value) :
        Return(o, "apply_setting", value)

ApplySetting ==
    /\ Idle
    /\ \/ \E m \in PerfModes : \E f \in FanModes : Apply(<<"PerfMode", m, f>>)
       \/ \E b \in CpuBoosts : Apply(<<"CpuBoost", b>>)
       \/ \E b \in GpuBoosts : Apply(<<"GpuBoost", b>>)
       \/ \E m \in FanModes : \E rpm \in RpmOptions : Apply(<<"Fan", m, rpm>>)
       \/ \E m \in MaxFanSpeedModes : Apply(<<"MaxFanSpeed", m>>)
       \/ \E b \in BrightnessInputs : Apply(<<"KeyboardBrightness", b>>)
       \/ \E m \in LogoModes : Apply(<<"LogoMode", m>>)
       \/ \E m \in BatteryCares : Apply(<<"BatteryCare", m>>)
       \/ \E m \in LightsAlwaysOnModes : Apply(<<"LightsAlwaysOn", m>>)

\* the caller has looked at the result; the next call can start
TakeResult ==
    /\ ~Idle
    /\ op' = NoCall
    /\ sent' = <<>>
    /\ result' = Ok(<<>>)
    /\ UNCHANGED <<device, features, callers>>

Next ==
    \/ TakeResult
    \/ SetPerfMode \/ GetPerfMode
    \/ SetCpuBoost \/ SetGpuBoost \/ GetCpuBoost \/ GetGpuBoost
    \/ SetFanRpm \/ GetFanRpm
    \/ SetMaxFanSpeedMode \/ GetMaxFanSpeedMode
    \/ SetFanMode
    \/ CustomCommand
    \/ GetLogoMode \/ SetLogoMode
    \/ GetKeyboardBrightness \/ SetKeyboardBrightness
    \/ GetLightsAlwaysOn \/ SetLightsAlwaysOn
    \/ GetBatteryCare \/ SetBatteryCare
    \/ ApplySetting

Spec == Init /\ [][Next]_vars

-----------------------------------------------------------------------------
(* ensure_matches_report on its own: requests, and the frames that may be  *)
(* read back for them, correlated or not, with any status byte.            *)

\* the commands of the requests tried: the two excepted reads and two others
MatchCommands == {GET_BATTERY_CARE, GET_MAX_FAN_SPEED, SET_PERF_MODE, GET_KBD_BRIGHTNESS}

\* the status bytes tried: the six of CommandStatus and two that are none of them
StatusBytes == {0, 1, 2, 3, 4, 5, 6, 255}

\* the remaining_packets values tried in a response (a request carries 0)
RemainingValues == {0, 1}

MatchReports == {PacketNew(c, <<208>>, id) : c \in MatchCommands, id \in Ids}

\* the frames tried as the response to a report
MatchResponses(report) ==
    {[report EXCEPT !.status = st, !.id = i, !.command_class = cc,
                    !.command_id = ci, !.remaining_packets = rp]
       : st \in StatusBytes, i \in Ids,
         cc \in {report.command_class, (report.command_class + 1) % 256},
         ci \in {report.command_id, (report.command_id + 1) % 256},
         rp \in RemainingValues}

\* response.ensure_matches_report(&report)
EnsureMatchesReport ==
    /\ Idle
    /\ \E report \in MatchReports : \E response \in MatchResponses(report) :
          /\ op' = [name |-> "ensure_matches_report", args |-> <<response, report>>]
          /\ result' = ensure_matches_report(response, report)
          /\ sent' = <<>>
          /\ UNCHANGED <<device, features, callers>>

NextMatch ==
    \/ TakeResult
    \/ EnsureMatchesReport
    \/ GetBatteryCare \/ GetMaxFanSpeedMode

SpecMatch == Init /\ [][NextMatch]_vars

-----------------------------------------------------------------------------
(* The three calls that write in two packets, against a register file that *)
(* also carries the fan-speed registers.                                   *)

\* the byte both fan-speed registers hold when the handle is opened
StartRpm == {30}

InitWrites ==
    /\ device \in {[zone |-> [z \in {1, 2} |-> m],
                    logo |-> [power |-> 0, pattern |-> 0],
                    rpm |-> [z \in {1, 2} |-> q]] : m \in StartZones, q \in StartRpm}
    /\ features = AllFeatures
    /\ op = NoCall
    /\ sent = <<>>
    /\ result = Ok(<<>>)
    /\ callers = [c \in Callers |-> Resting]

NextWrites == TakeResult \/ SetPerfMode \/ SetFanRpm \/ SetLogoMode

SpecWrites == InitWrites /\ [][NextWrites]_vars

-----------------------------------------------------------------------------
(* The facade's reads, against a register file that carries every register *)
(* read and a laptop that fails in one way at most.                        *)

\* the registers behind the single-packet reads when the handle is opened:
\* CPU boost High, GPU boost Medium, brightness 80, lights always on, max fan
\* speed on, battery care on
StartRegs ==
    [boost |-> <<2, 1>>, kbd |-> 80, lights |-> 3, max_fan |-> 2, battery |-> 208]

\* the laptops tried: sound, or failing in one of the ways of Faults or Links
Repertoires ==
    {[faults |-> {"none", f}, links |-> {"up"}] : f \in Faults}
        \cup {[faults |-> {"none"}, links |-> {"up", l}] : l \in Links}

\* the feature sets of the descriptors tried: those of FeatureSets and one that
\* lists neither fan nor perf
FacadeFeatureSets == FeatureSets \cup {{"battery-care"}}

InitFacade ==
    /\ device \in {[zone |-> [z \in {1, 2} |-> m],
                    logo |-> [power |-> p, pattern |-> 2],
                    rpm |-> [z \in {1, 2} |-> q],
                    regs |-> StartRegs,
                    faults |-> e.faults,
                    links |-> e.links]
                     : m \in StartZones, p \in {0, 1}, q \in StartRpm, e \in Repertoires}
    /\ features \in FacadeFeatureSets
    /\ op = NoCall
    /\ sent = <<>>
    /\ result = Ok(<<>>)
    /\ callers = [c \in Callers |-> Resting]

GetSetting ==
    /\ Idle
    /\ \E s \in Settings : \E o \in get_setting(Start(device), features, s) :
           Return(o, "get_setting", <<s>>)

ReadState ==
    /\ Idle
    /\ \E o \in read_state(Start(device), features) : Return(o, "read_state", <<>>)

NextFacade == TakeResult \/ GetSetting \/ ReadState

SpecFacade == InitFacade /\ [][NextFacade]_vars

-----------------------------------------------------------------------------
(* Device::send step by step, with two logical callers of one handle.      *)
(* The repository starts no thread and send is a synchronous function:     *)
(* its sleeps block the one thread of control.  The laptop answers from    *)
(* its registers or with Busy; the link may fail in any of its ways.       *)

\* the requests the callers make: a read and a write
CallerRequests == {<<GET_KBD_BRIGHTNESS, <<1, 5, 0>>>>, <<SET_PERF_MODE, <<1, 1, 0, 0>>>>}

\* variant: a caller may enter send while the other is inside it
ThreadFreeAlways == TRUE

\* the thread of control is inside no call of send
ThreadFree == \A c \in Callers : callers[c].pc = "out"

\* pub fn send(&self, report: Packet): the caller enters with a fresh packet
Enter(c) ==
    /\ callers[c].pc = "out"
    /\ ThreadFree
    /\ \E q \in CallerRequests : \E id \in Ids :
          callers' = [callers EXCEPT ![c] = [pc |-> "sleep_1000us",
                                             report |-> <<PacketNew(q[1], q[2], id)>>,
                                             got |-> <<>>,
                                             res |-> Ok(<<>>)]]
    /\ UNCHANGED <<device, features, op, sent, result>>

\* thread::sleep before the write and before the read
Sleep(c) ==
    /\ callers[c].pc \in {"sleep_1000us", "sleep_2000us"}
    /\ callers' = [callers EXCEPT ![c].pc = IF @ = "sleep_1000us"
                                            THEN "send_feature_report"
                                            ELSE "get_feature_report"]
    /\ UNCHANGED <<device, features, op, sent, result>>

\* self.device.send_feature_report(..)?: the controller reacts and keeps its
\* response for the next read of the endpoint
Write(c) ==
    /\ callers[c].pc = "send_feature_report"
    /\ \/ /\ "write_fails" \in LinksOf(device)
          /\ callers' = [callers EXCEPT ![c].pc = "out", ![c].res = Err(ErrHid)]
          /\ UNCHANGED device
       \/ \E o \in Firmware(device, callers[c].report[1]) :
             /\ device' = [o.dev EXCEPT !.buffer = <<[response |-> o.response,
                                                     for |-> c]>>]
             /\ callers' = [callers EXCEPT ![c].pc = "sleep_2000us"]
    /\ UNCHANGED <<features, op, sent, result>>

\* self.device.get_feature_report(..)? and the checks on what was read
Read(c) ==
    /\ callers[c].pc = "get_feature_report"
    /\ \/ /\ "read_fails" \in LinksOf(device)
          /\ callers' = [callers EXCEPT ![c].pc = "out", ![c].res = Err(ErrHid)]
       \/ /\ "read_short" \in LinksOf(device)
          /\ callers' = [callers EXCEPT ![c].pc = "out",
                                        ![c].res = Err(ErrInvalidDataSize)]
       \/ /\ device.buffer # <<>>
          /\ callers' = [callers EXCEPT
                ![c].pc = "out",
                ![c].got = <<device.buffer[1].for>>,
                ![c].res = ReplyOf(ensure_matches_report(device.buffer[1].response,
                                                         callers[c].report[1]))]
    /\ UNCHANGED <<device, features, op, sent, result>>

InitCallers ==
    /\ device \in {[zone |-> [z \in {1, 2} |-> m],
                    logo |-> [power |-> 0, pattern |-> 0],
                    regs |-> StartRegs,
                    faults |-> {"none", "busy"},
                    buffer |-> <<>>] : m \in StartZones}
    /\ features = AllFeatures
    /\ op = NoCall
    /\ sent = <<>>
    /\ result = Ok(<<>>)
    /\ callers = [c \in Callers |-> Resting]

NextCallers == \E c \in Callers : Enter(c) \/ Sleep(c) \/ Write(c) \/ Read(c)

SpecCallers == InitCallers /\ [][NextCallers]_vars

-----------------------------------------------------------------------------
(* The vocabulary of the properties: what a call's trace shows.            *)

\* the packets of a trace, in order, without what came back
Packets(s) == [i \in 1..Len(s) |-> <<s[i].command, s[i].args>>]

\* s is an initial part of t
IsPrefix(s, t) == Len(s) <= Len(t) /\ s = SubSeq(t, 1, Len(s))

\* the exchange was answered with success and the answer begins with the args sent
Echoed(e) == IsOk(e.reply) /\ StartsWith(e.reply.val, e.args)

\* the answer carries a perf-mode byte at args[2] and a fan-mode byte at args[3]
Decodes(e) ==
    /\ IsOk(e.reply)
    /\ Len(e.reply.val) >= 4
    /\ IsOk(PerfModeTryFrom(e.reply.val[3]))
    /\ IsOk(FanModeTryFrom(e.reply.val[4]))

\* the (perf mode, fan mode) such an answer carries
PairOf(e) ==
    <<PerfModeTryFrom(e.reply.val[3]).val[1], FanModeTryFrom(e.reply.val[4]).val[1]>>

\* the two packets of get_perf_mode
PerfReads ==
    <<<<GET_PERF_MODE, <<0, 1, 0, 0>>>>, <<GET_PERF_MODE, <<0, 2, 0, 0>>>>>>

\* the trace begins with get_perf_mode's reads and both answers carry one pair:
\* the preflight get_perf_mode returned that pair
PreflightReturned(s) ==
    /\ Len(s) >= 2
    /\ SubSeq(Packets(s), 1, 2) = PerfReads
    /\ Decodes(s[1])
    /\ Decodes(s[2])
    /\ PairOf(s[1]) = PairOf(s[2])

PreflightMode(s) == PairOf(s[1])

\* some packet of the trace carries this command
Issued(s, command) == \E i \in 1..Len(s) : s[i].command = command

\* the packets of a trace after the two preflight reads
AfterPreflight(s) == SubSeq(Packets(s), 3, Len(s))

\* the two 0x0d02 packets that write (perf byte, fan byte) to zone 1, then zone 2
PerfWrites(perf, fan) ==
    <<<<SET_PERF_MODE, <<1, 1, perf, fan>>>>, <<SET_PERF_MODE, <<1, 2, perf, fan>>>>>>

\* the two 0x0d01 packets that write the byte q to fan zone 1, then fan zone 2
RpmWrites(q) ==
    <<<<SET_FAN_RPM, <<0, 1, q>>>>, <<SET_FAN_RPM, <<0, 2, q>>>>>>

\* the packets set_logo_mode is to issue for a mode
LogoPackets(mode) ==
    IF mode = "Off" THEN <<<<SET_LOGO_POWER, <<1, 4, 0>>>>>>
    ELSE IF mode = "Static"
    THEN <<<<SET_LOGO_MODE, <<1, 4, 0>>>>, <<SET_LOGO_POWER, <<1, 4, 1>>>>>>
    ELSE <<<<SET_LOGO_MODE, <<1, 4, 2>>>>, <<SET_LOGO_POWER, <<1, 4, 1>>>>>>

\* both registers of a zone pair, as the modes they encode
ZoneBytes(perf_mode, fan_mode) ==
    [perf |-> PerfModeByte(perf_mode), fan |-> FanModeByte(fan_mode)]

-----------------------------------------------------------------------------
(* The properties.                                                         *)

\* C1: set_cpu_boost and set_gpu_boost, when the preflight get_perf_mode
\* returned a pair other than (Custom, Auto), fail with the precondition error
\* having sent the two 0x0d82 reads and nothing else; a 0x0d07 packet is only
\* ever issued after the preflight returned (Custom, Auto).
C1_BoostNeedsCustomAuto ==
    op.name \in {"set_cpu_boost", "set_gpu_boost"} =>
        /\ (PreflightReturned(sent) /\ PreflightMode(sent) # <<"Custom", "Auto">>)
              => (result = Err(ErrPreconditionFailed) /\ Packets(sent) = PerfReads)
        /\ Issued(sent, SET_BOOST)
              => (PreflightReturned(sent) /\ PreflightMode(sent) = <<"Custom", "Auto">>)

\* set_cpu_boost was refused on a (Balanced, Manual) device after the two reads
C1_BoostRefused ==
    /\ op.name = "set_cpu_boost"
    /\ PreflightReturned(sent)
    /\ PreflightMode(sent) = <<"Balanced", "Manual">>
    /\ result = Err(ErrPreconditionFailed)
    /\ Packets(sent) = PerfReads

\* C2: set_fan_rpm with rpm outside 2000..5000 fails with the precondition
\* error and no packet at all has been passed to the transport.
C2_RpmRangeCheckedFirst ==
    (op.name = "set_fan_rpm" /\ ~(op.args[1] >= 2000 /\ op.args[1] <= 5000))
        => (result = Err(ErrPreconditionFailed) /\ sent = <<>>)

\* set_fan_rpm(5001) was refused with nothing sent
C2_RpmTooHighRefused ==
    /\ op.name = "set_fan_rpm" /\ op.args[1] = 5001
    /\ result = Err(ErrPreconditionFailed)
    /\ sent = <<>>

\* C3: set_fan_rpm with rpm in range, when the preflight get_perf_mode returned
\* a pair other than (Balanced, Manual), fails with the precondition error
\* having sent only the 0x0d82 reads; a 0x0d01 packet is only ever issued
\* after the preflight returned (Balanced, Manual).
C3_RpmNeedsBalancedManual ==
    op.name = "set_fan_rpm" =>
        /\ (/\ op.args[1] >= 2000 /\ op.args[1] <= 5000
            /\ PreflightReturned(sent)
            /\ PreflightMode(sent) # <<"Balanced", "Manual">>)
              => (result = Err(ErrPreconditionFailed) /\ Packets(sent) = PerfReads)
        /\ Issued(sent, SET_FAN_RPM)
              => (PreflightReturned(sent) /\ PreflightMode(sent) = <<"Balanced", "Manual">>)

\* set_fan_rpm(2500) was refused on a (Custom, Auto) device after the two reads
C3_RpmRefusedInCustom ==
    /\ op.name = "set_fan_rpm" /\ op.args[1] = 2500
    /\ PreflightReturned(sent)
    /\ PreflightMode(sent) = <<"Custom", "Auto">>
    /\ result = Err(ErrPreconditionFailed)
    /\ Packets(sent) = PerfReads

\* C4: set_fan_rpm with rpm in range, after the preflight returned
\* (Balanced, Manual), issues 0x0d01 for zone 1 and then for zone 2, each with
\* args [0, zone, rpm / 100] (the integer quotient): zone 2 follows as soon as
\* zone 1 was echoed, a successful call issued exactly the two, and nothing
\* else follows the reads.  2500 goes out as 25.
C4_RpmWritesBothZones ==
    (/\ op.name = "set_fan_rpm"
     /\ op.args[1] >= 2000 /\ op.args[1] <= 5000
     /\ PreflightReturned(sent)
     /\ PreflightMode(sent) = <<"Balanced", "Manual">>)
        => LET writes == RpmWrites(op.args[1] \div 100)
               tail == AfterPreflight(sent)
           IN  /\ tail # <<>>
               /\ IsPrefix(tail, writes)
               /\ Echoed(sent[3]) => tail = writes
               /\ IsOk(result) => tail = writes
               /\ op.args[1] = 2500 => tail[1] = <<SET_FAN_RPM, <<0, 1, 25>>>>

\* set_fan_rpm(2599) succeeded: the reads, then [0,1,25] and [0,2,25]
C4_RpmWritten ==
    /\ op.name = "set_fan_rpm" /\ op.args[1] = 2599
    /\ IsOk(result)
    /\ Packets(sent) = PerfReads \o RpmWrites(25)

\* C5: set_logo_mode issues the packets of its mode in order (Off: 0x0300
\* [1,4,0]; Static: 0x0302 [1,4,0] then 0x0300 [1,4,1]; Breathing: 0x0302
\* [1,4,2] then 0x0300 [1,4,1]) and no other; when every response echoes, all
\* of them were issued and the call returned success.
C5_LogoPacketSequence ==
    op.name = "set_logo_mode" =>
        /\ sent # <<>>
        /\ IsPrefix(Packets(sent), LogoPackets(op.args[1]))
        /\ IsOk(result) => Packets(sent) = LogoPackets(op.args[1])
        /\ (\A i \in 1..Len(sent) : Echoed(sent[i]))
              => (IsOk(result) /\ Packets(sent) = LogoPackets(op.args[1]))

\* set_logo_mode(Breathing) succeeded with the pattern packet, then the power packet
C5_BreathingSet ==
    /\ op.name = "set_logo_mode" /\ op.args[1] = "Breathing"
    /\ result = Ok(<<>>)
    /\ Packets(sent) = <<<<770, <<1, 4, 2>>>>, <<768, <<1, 4, 1>>>>>>

\* C6: get_perf_mode sends 0x0d82 for zone 1, then for zone 2; when both
\* answers decode (args[2] perf mode, args[3] fan mode) it returns the pair if
\* the two are the same and fails with the precondition error if they differ;
\* it returns a value in no other case.
C6_GetPerfModeComparesZones ==
    op.name = "get_perf_mode" =>
        /\ Packets(sent) \in {SubSeq(PerfReads, 1, 1), PerfReads}
        /\ Decodes(sent[1]) => Len(sent) = 2
        /\ (Len(sent) = 2 /\ Decodes(sent[1]) /\ Decodes(sent[2]))
              => IF PairOf(sent[1]) = PairOf(sent[2])
                 THEN result = Ok(PairOf(sent[1]))
                 ELSE result = Err(ErrPreconditionFailed)
        /\ IsOk(result) => (Len(sent) = 2 /\ Decodes(sent[1]) /\ Decodes(sent[2]))

\* get_perf_mode read two different pairs and failed
C6_ZonesDisagreeRefused ==
    /\ op.name = "get_perf_mode"
    /\ Len(sent) = 2
    /\ Decodes(sent[1])
    /\ Decodes(sent[2])
    /\ PairOf(sent[1]) # PairOf(sent[2])
    /\ result = Err(ErrPreconditionFailed)

\* C7, as stated: zones 1 and 2 hold the same (perf mode, fan mode) in every
\* state, whatever calls were made and however they ended.
C7_ZonesAlwaysAgree == device.zone[1] = device.zone[2]

\* C7, as the code has it: a set_perf_mode or set_fan_mode that returned
\* success has left both zones holding the pair it wrote, and a get_perf_mode
\* that returned a pair read it from zones that agree on it.
C7_ZonesAgreeAfterSuccess ==
    /\ (op.name = "set_perf_mode" /\ IsOk(result))
          => (/\ device.zone[1] = ZoneBytes(op.args[1], "Auto")
              /\ device.zone[2] = ZoneBytes(op.args[1], "Auto"))
    /\ (op.name = "set_fan_mode" /\ IsOk(result))
          => (/\ device.zone[1] = ZoneBytes("Balanced", op.args[1])
              /\ device.zone[2] = ZoneBytes("Balanced", op.args[1]))
    /\ (op.name = "get_perf_mode" /\ IsOk(result))
          => (/\ device.zone[1] = ZoneBytes(result.val[1], result.val[2])
              /\ device.zone[2] = ZoneBytes(result.val[1], result.val[2]))

\* set_perf_mode(Silent) returned success and both zones hold (Silent, Auto)
C7_BothZonesWritten ==
    /\ op.name = "set_perf_mode" /\ op.args[1] = "Silent"
    /\ IsOk(result)
    /\ device.zone[1] = [perf |-> 5, fan |-> 0]
    /\ device.zone[2] = [perf |-> 5, fan |-> 0]

\* C8: set_perf_mode(mode) issues 0x0d02 for zone 1 and then zone 2 with args
\* [1, zone, perf byte of mode, 0] and nothing else, the fan byte being Auto
\* (0); apply_setting of a PerfMode setting issues the same packets whatever
\* fan_mode the setting carries.
C8_PerfModeSendsAuto ==
    /\ op.name = "set_perf_mode" =>
          LET writes == PerfWrites(PerfModeByte(op.args[1]), 0)
          IN  /\ sent # <<>>
              /\ IsPrefix(Packets(sent), writes)
              /\ Echoed(sent[1]) => Len(sent) = 2
              /\ IsOk(result) => Packets(sent) = writes
    /\ (op.name = "apply_setting" /\ op.args[1] = "PerfMode") =>
          LET writes == PerfWrites(PerfModeByte(op.args[2]), 0)
          IN  /\ sent # <<>>
              /\ IsPrefix(Packets(sent), writes)
              /\ Echoed(sent[1]) => Len(sent) = 2
              /\ IsOk(result) => Packets(sent) = writes

\* a PerfMode setting carrying Manual was applied: both packets went out with fan byte 0
C8_ManualFieldIgnored ==
    /\ op.name = "apply_setting" /\ op.args[1] = "PerfMode" /\ op.args[2] = "Balanced" /\ op.args[3] = "Manual"
    /\ IsOk(result)
    /\ Packets(sent) = <<<<3330, <<1, 1, 0, 0>>>>, <<3330, <<1, 2, 0, 0>>>>>>

\* C9, as stated: a set_fan_mode(Manual) made while neither zone is in
\* Balanced returns the precondition error with no packet passed to the
\* transport.
C9_ManualRefusedBeforeAnySend ==
    [][(/\ Idle
        /\ op'.name = "set_fan_mode"
        /\ op'.args[1] = "Manual"
        /\ device.zone[1].perf # PerfModeByte("Balanced")
        /\ device.zone[2].perf # PerfModeByte("Balanced"))
          => (result' = Err(ErrPreconditionFailed) /\ sent' = <<>>)]_vars

\* C9, as the code has it: the internal setter refuses (Silent or Custom,
\* Manual) with the precondition error before sending anything of its own;
\* the public set_fan_mode(Manual) first reads the perf mode, and when the
\* preflight returned a non-Balanced mode it fails with the precondition
\* error having sent the two 0x0d82 reads and no 0x0d02.
C9_ManualRefusedAfterReads ==
    /\ \A perf_mode \in PerfModes \ {"Balanced"} :
          set_perf_mode_internal(Start(device), perf_mode, "Manual")
              = {[dev |-> device, sent |-> <<>>, res |-> Err(ErrPreconditionFailed)]}
    /\ (/\ op.name = "set_fan_mode" /\ op.args[1] = "Manual"
        /\ PreflightReturned(sent)
        /\ PreflightMode(sent)[1] # "Balanced")
          => (result = Err(ErrPreconditionFailed) /\ Packets(sent) = PerfReads)

\* set_fan_mode(Manual) was refused in Custom after the two reads went out
C9_ManualRefusedInCustom ==
    /\ op.name = "set_fan_mode" /\ op.args[1] = "Manual"
    /\ PreflightReturned(sent)
    /\ PreflightMode(sent) = <<"Custom", "Auto">>
    /\ result = Err(ErrPreconditionFailed)
    /\ Packets(sent) = PerfReads
    /\ device.zone[1] = [perf |-> 4, fan |-> 0]

\* C10: set_fan_mode(mode) first issues the 0x0d82 reads.  When the preflight
\* returned Balanced with either fan mode, it goes on to issue 0x0d02 for zone
\* 1 and then zone 2 with (Balanced, mode) and nothing else; in every other
\* case it fails and no 0x0d02 packet is issued.
C10_FanModeNeedsBalanced ==
    op.name = "set_fan_mode" =>
        /\ sent # <<>>
        /\ IsPrefix(SubSeq(Packets(sent), 1, 1), PerfReads)
        /\ IF PreflightReturned(sent) /\ PreflightMode(sent)[1] = "Balanced"
           THEN LET writes == PerfWrites(0, FanModeByte(op.args[1]))
                    tail == AfterPreflight(sent)
                IN  /\ tail # <<>>
                    /\ IsPrefix(tail, writes)
                    /\ Echoed(sent[3]) => tail = writes
                    /\ IsOk(result) => tail = writes
           ELSE ~IsOk(result) /\ ~Issued(sent, SET_PERF_MODE)

\* set_fan_mode(Auto) succeeded on a (Balanced, Manual) device
C10_FanModeSetFromManual ==
    /\ op.name = "set_fan_mode" /\ op.args[1] = "Auto"
    /\ PreflightReturned(sent)
    /\ PreflightMode(sent) = <<"Balanced", "Manual">>
    /\ IsOk(result)
    /\ AfterPreflight(sent) = <<<<3330, <<1, 1, 0, 0>>>>, <<3330, <<1, 2, 0, 0>>>>>>

\* the response is the one ensure_matches_report was applied to, the report the request
MatchedResponse == op.args[1]

MatchedReport == op.args[2]

\* the response carries the request's command_class, command_id and id
SameExchange(self, report) ==
    /\ self.command_class = report.command_class
    /\ self.command_id = report.command_id
    /\ self.id = report.id

\* C11: ensure_matches_report returns ResponseMismatch whenever the response's
\* command_class, command_id or id differs from the request's, whatever the
\* status byte of the response is.
C11_UncorrelatedIsMismatch ==
    (op.name = "ensure_matches_report" /\ ~SameExchange(MatchedResponse, MatchedReport))
        => result = Err(ErrResponseMismatch)

\* a response that differs from its request in the id alone, with status
\* Busy, was reported as a mismatch
C11_WrongIdBusyIsMismatch ==
    /\ op.name = "ensure_matches_report"
    /\ MatchedResponse.id # MatchedReport.id
    /\ MatchedResponse.command_class = MatchedReport.command_class
    /\ MatchedResponse.command_id = MatchedReport.command_id
    /\ MatchedResponse.status = 1
    /\ result = Err(ErrResponseMismatch)

\* C12: a correlated response whose remaining_packets differs from the
\* request's is a ResponseMismatch for every command but 0x0792 and 0x078f;
\* for those two the status decides as if nothing differed, and a 0x0792
\* answer with remaining_packets 1 and args [0xd0] makes get_battery_care
\* return Enable.
C12_RemainingPacketsException ==
    /\ (/\ op.name = "ensure_matches_report"
        /\ SameExchange(MatchedResponse, MatchedReport)
        /\ MatchedResponse.remaining_packets # MatchedReport.remaining_packets)
          => IF (MatchedReport.command_class * 256) + MatchedReport.command_id
                   \in {1938, 1935}
             THEN /\ result # Err(ErrResponseMismatch)
                  /\ MatchedResponse.status = 2 => result = Ok(MatchedResponse)
             ELSE result = Err(ErrResponseMismatch)
    /\ (/\ op.name = "get_battery_care"
        /\ Len(sent) = 1
        /\ sent[1].frame = <<2, 1>>
        /\ sent[1].reply = Ok(<<208>>))
          => result = Ok(<<"Enable">>)

\* get_battery_care returned Enable from a 0x0792 answer with remaining_packets 1
C12_BatteryCareReadTolerated ==
    /\ op.name = "get_battery_care"
    /\ Packets(sent) = <<<<1938, <<0>>>>>>
    /\ sent[1].frame = <<2, 1>>
    /\ sent[1].reply = Ok(<<208>>)
    /\ result = Ok(<<"Enable">>)

\* C13: for a correlated response, ensure_matches_report returns the response
\* exactly when the status byte is 0x02; 0x05 gives CommandNotSupported, 0x01
\* DeviceBusy, 0x03 CommandFailed, 0x04 CommandTimeout, and every other byte,
\* 0x00 included, UnknownStatus with the byte.
C13_OnlySuccessfulIsUsable ==
    (/\ op.name = "ensure_matches_report"
     /\ SameExchange(MatchedResponse, MatchedReport)
     /\ MatchedResponse.remaining_packets = MatchedReport.remaining_packets)
        => LET st == MatchedResponse.status
           IN  /\ IsOk(result) <=> st = 2
               /\ st = 2 => result = Ok(MatchedResponse)
               /\ st = 5 => result = Err(ErrCommandNotSupported)
               /\ st = 1 => result = Err(ErrDeviceBusy)
               /\ st = 3 => result = Err(ErrCommandFailed)
               /\ st = 4 => result = Err(ErrCommandTimeout)
               /\ st \notin {1, 2, 3, 4, 5}
                     => result = [kind |-> ErrUnknownStatus, val |-> <<st>>]

\* a correlated response with status 0x00 (New) was refused as UnknownStatus(0)
C13_StatusNewIsUnknown ==
    /\ op.name = "ensure_matches_report"
    /\ SameExchange(MatchedResponse, MatchedReport)
    /\ MatchedResponse.remaining_packets = MatchedReport.remaining_packets
    /\ MatchedResponse.status = 0
    /\ result = [kind |-> ErrUnknownStatus, val |-> <<0>>]

\* the commands that write a setting
SetCommands ==
    {SET_PERF_MODE, SET_BOOST, SET_FAN_RPM, SET_MAX_FAN_SPEED, SET_KBD_BRIGHTNESS,
     SET_LOGO_MODE, SET_LOGO_POWER, SET_LIGHTS_ALWAYS_ON, SET_BATTERY_CARE}

\* the set packets of a trace
SetEntries(s) == {i \in 1..Len(s) : s[i].command \in SetCommands}

\* C14: a set command (perf mode, boost, fan RPM, max fan speed, keyboard
\* brightness, logo pattern and power, lights-always-on, battery care) succeeds
\* only if the response's args begin with exactly the request's args: an
\* operation that returned Ok had every set packet echoed, and a Successful
\* response that does not begin with the request's args is the operation's last
\* packet and makes it fail.
C14_SetNeedsEcho ==
    op.name \notin {"none", "custom_command", "ensure_matches_report"}
        => /\ IsOk(result) => \A i \in SetEntries(sent) : Echoed(sent[i])
           /\ \A i \in SetEntries(sent) :
                 (IsOk(sent[i].reply) /\ ~Echoed(sent[i]))
                     => i = Len(sent) /\ result = Err(ErrProtocol)

\* set_battery_care got a Successful answer that carries other bytes and failed
C14_BatteryCareNotEchoed ==
    /\ op.name = "set_battery_care"
    /\ Len(sent) = 1
    /\ sent[1].command = SET_BATTERY_CARE
    /\ sent[1].frame = <<StatusSuccessful, 0>>
    /\ IsOk(sent[1].reply)
    /\ ~StartsWith(sent[1].reply.val, sent[1].args)
    /\ result = Err(ErrProtocol)

\* how many steps of an exchange are the step x
Count(io, x) == Cardinality({k \in 1..Len(io) : io[k] = x})

\* C15: no automatic retry. One call of send performs exactly one feature-report
\* write followed by at most one read, in the order pre-send pause, write,
\* post-send pause, read; a Busy or Timeout status is returned as the error of
\* the operation and no further packet is sent for it.
C15_OneWriteAtMostOneRead ==
    op.name \notin {"none", "ensure_matches_report"}
        => \A i \in 1..Len(sent) :
              /\ Count(sent[i].io, "send_feature_report") = 1
              /\ Count(sent[i].io, "get_feature_report") <= 1
              /\ IsPrefix(sent[i].io, ReadSteps)
              /\ sent[i].reply \in {Err(ErrDeviceBusy), Err(ErrCommandTimeout)}
                    => i = Len(sent) /\ result = sent[i].reply

\* set_logo_mode's first packet was answered Busy after one write and one read,
\* and the call ended there with DeviceBusy
C15_BusyEndsTheCall ==
    /\ op.name = "set_logo_mode"
    /\ Len(sent) = 1
    /\ sent[1].io = ReadSteps
    /\ sent[1].frame = <<StatusBusy, 0>>
    /\ result = Err(ErrDeviceBusy)

\* the set packets of a trace, in order
Writes(s) == SelectSeq(s, LAMBDA e : e.command \in SetCommands)

\* the sub-commands a call is to issue, in order
SubCommands(call) ==
    IF call.name = "set_perf_mode" THEN PerfWrites(PerfModeByte(call.args[1]), 0)
    ELSE IF call.name = "set_fan_rpm" THEN RpmWrites(call.args[1] \div 100)
    ELSE LogoPackets(call.args[1])

\* the register a set packet <<command, args>> addresses, as the file d holds it
Register(d, w) ==
    IF w[1] = SET_PERF_MODE THEN <<d.zone[w[2][2]].perf, d.zone[w[2][2]].fan>>
    ELSE IF w[1] = SET_FAN_RPM THEN <<d.rpm[w[2][2]]>>
    ELSE IF w[1] = SET_LOGO_POWER THEN <<d.logo.power>>
    ELSE <<d.logo.pattern>>

\* what that register holds once the packet has taken effect
Written(w) == IF w[1] = SET_PERF_MODE THEN <<w[2][3], w[2][4]>> ELSE <<w[2][3]>>

\* C16: no rollback on partial failure.  set_perf_mode (zones 1, 2), set_fan_rpm
\* (zones 1, 2) and set_logo_mode (pattern, then power) issue their sub-commands
\* in that order; the caller gets the first error; no sub-command follows the
\* failing one (its register is left as it was); and what the sub-commands that
\* succeeded had written is still on the device when the call returns.
C16_NoRollback ==
    [][(Idle /\ op'.name \in {"set_perf_mode", "set_fan_rpm", "set_logo_mode"})
          => LET w == Writes(sent')
                 todo == SubCommands(op')
             IN  /\ IsPrefix(Packets(w), todo)
                 /\ IsOk(result') => Packets(w) = todo
                 /\ \A i \in 1..Len(w) :
                       IF Echoed(w[i])
                       THEN Register(device', todo[i]) = Written(todo[i])
                       ELSE /\ i = Len(w)
                            /\ ~IsOk(result')
                            /\ ~IsOk(w[i].reply) => result' = w[i].reply
                 /\ \A i \in (Len(w) + 1)..Len(todo) :
                       /\ ~IsOk(result')
                       /\ Register(device', todo[i]) = Register(device, todo[i])]_vars

\* set_fan_rpm(2500) wrote 25 to zone 1, failed on zone 2, and returned the
\* error with zone 1 at 25 and zone 2 still at its old byte
C16_FanZone1Kept ==
    /\ op.name = "set_fan_rpm" /\ op.args[1] = 2500
    /\ Len(Writes(sent)) = 2
    /\ Echoed(Writes(sent)[1])
    /\ Writes(sent)[2].reply = Err(ErrCommandTimeout)
    /\ result = Err(ErrCommandTimeout)
    /\ device.rpm[1] = 25
    /\ device.rpm[2] \in StartRpm

\* the feature tag a setting belongs to
TagOf(setting) ==
    CASE setting \in {"PerfMode", "CpuBoost", "GpuBoost"} -> "perf"
      [] setting \in {"FanMode", "Fan", "MaxFanSpeed"} -> "fan"
      [] setting = "KeyboardBrightness" -> "kbd-backlight"
      [] setting = "LogoMode" -> "lid-logo"
      [] setting = "BatteryCare" -> "battery-care"
      [] setting = "LightsAlwaysOn" -> "lights-always-on"

\* the settings whose arm looks at the descriptor's features
GatedSettings == {"KeyboardBrightness", "LogoMode", "BatteryCare", "LightsAlwaysOn"}

\* the call was refused with FeatureNotSupported(tag) and nothing was sent
RefusedFor(tag) ==
    /\ result.kind = ErrFeatureNotSupported
    /\ result.val = <<tag>>
    /\ sent = <<>>

\* C18, as stated: every get that targets a feature not in the descriptor's
\* feature set fails with FeatureNotSupported(tag) without any USB traffic, for
\* every getter and every tag of the closed set, fan and perf included.
C18_EveryGetIsGated ==
    (op.name = "get_setting" /\ TagOf(op.args[1]) \notin features)
        => RefusedFor(TagOf(op.args[1]))

\* C18, as the code has it: get_setting of keyboard brightness, logo mode,
\* battery care or lights-always-on on a device whose descriptor lacks the tag
\* fails with FeatureNotSupported(tag) without any USB traffic; the getters of
\* perf mode, CPU and GPU boost, fan and max fan speed never look at the
\* descriptor: they send their first read whatever it lists and never return
\* FeatureNotSupported.
C18_FourGetsAreGated ==
    op.name = "get_setting"
        => IF op.args[1] \in GatedSettings
           THEN IF TagOf(op.args[1]) \in features
                THEN sent # <<>> /\ result.kind # ErrFeatureNotSupported
                ELSE RefusedFor(TagOf(op.args[1]))
           ELSE sent # <<>> /\ result.kind # ErrFeatureNotSupported

\* get_setting(LogoMode) on a descriptor without lid-logo was refused unsent
C18_LogoGetRefused ==
    /\ op.name = "get_setting" /\ op.args[1] = "LogoMode"
    /\ "lid-logo" \notin features
    /\ RefusedFor("lid-logo")

\* C19: typed apply fails fast on unsupported features: apply_setting of a
\* keyboard-brightness, logo, battery-care or lights-always-on value on a device
\* whose descriptor lacks the matching tag returns FeatureNotSupported and
\* sends no packet.
C19_ApplyFailsFast ==
    (/\ op.name = "apply_setting"
     /\ op.args[1] \in GatedSettings
     /\ TagOf(op.args[1]) \notin features)
        => /\ result.kind = ErrFeatureNotSupported
           /\ result.val = <<TagOf(op.args[1])>>
           /\ sent = <<>>

\* apply_setting(KeyboardBrightness(255)) on a descriptor without kbd-backlight
\* returned FeatureNotSupported with nothing sent
C19_BrightnessApplyRefused ==
    /\ op.name = "apply_setting"
    /\ op.args[1] = "KeyboardBrightness" /\ op.args[2] = 255
    /\ "kbd-backlight" \notin features
    /\ result.kind = ErrFeatureNotSupported
    /\ sent = <<>>

\* the exchanges of a trace that carry this command
EntriesOf(s, command) == {i \in 1..Len(s) : s[i].command = command}

\* the single-packet reads of read_state: the field, the command, the feature
\* flag that makes it applicable ("" where it is read on every device) and what
\* the register decodes to
SingleReads ==
    {<<"max_fan_speed", GET_MAX_FAN_SPEED, "", "Enable">>,
     <<"keyboard_brightness", GET_KBD_BRIGHTNESS, "kbd-backlight", 80>>,
     <<"battery_care", GET_BATTERY_CARE, "battery-care", "Enable">>,
     <<"lights_always_on", GET_LIGHTS_ALWAYS_ON, "lights-always-on", "Enable">>}

\* C20, as stated: read_state never fails as a whole.
C20_ReadStateNeverFails == op.name = "read_state" => IsOk(result)

\* C20, the rest: read_state returns a state unless a getter panics, which
\* only a Successful answer without argument bytes brings about; the
\* reads of max fan speed and of the features the descriptor lists are all
\* issued, each once, whatever became of the reads before them, and no other; a
\* read that was answered with an error leaves its field absent and a field
\* that is present holds what the register decodes to; when get_perf_mode
\* failed, perf_mode and fan_mode are absent and no boost or fan-speed read
\* was issued.
C20_PartialStateUnlessPanic ==
    op.name = "read_state"
    => IF ~IsOk(result)
       THEN /\ result = Err(ErrPanic)
            /\ sent[Len(sent)].frame = <<StatusSuccessful, 0>>
            /\ sent[Len(sent)].reply = Ok(<<>>)
       ELSE
       LET st == result.val
       IN  /\ \A r \in SingleReads :
                 LET e == EntriesOf(sent, r[2])
                 IN  /\ Cardinality(e) = (IF r[3] = "" \/ r[3] \in features THEN 1 ELSE 0)
                     /\ st[r[1]] \in {<<>>, <<r[4]>>}
                     /\ \A i \in e : ~IsOk(sent[i].reply) => st[r[1]] = <<>>
                     /\ \A i \in e : sent[i].frame = <<StatusSuccessful, 0>>
                                        /\ Echoed(sent[i]) => st[r[1]] # <<>>
           /\ Issued(sent, GET_LOGO_POWER) <=> "lid-logo" \in features
           /\ "lid-logo" \notin features => st.logo_mode = <<>>
           /\ Len(sent) >= 2 /\ SubSeq(Packets(sent), 1, 1) = SubSeq(PerfReads, 1, 1)
           /\ (st.perf_mode = <<>>) <=> (st.fan_mode = <<>>)
           /\ ~PreflightReturned(sent) <=> st.perf_mode = <<>>
           /\ st.perf_mode = <<>>
                 => /\ ~Issued(sent, GET_BOOST) /\ ~Issued(sent, GET_FAN_RPM)
                    /\ st.cpu_boost = <<>> /\ st.gpu_boost = <<>> /\ st.fan_rpm = <<>>
           /\ Issued(sent, GET_BOOST) <=> st.perf_mode = <<"Custom">>
           /\ Issued(sent, GET_FAN_RPM) <=> st.fan_mode = <<"Manual">>

\* get_perf_mode's first read was answered Successful with no argument bytes:
\* the index into get_args() panicked and read_state returned no state
C20_ReadStatePanicked ==
    /\ op.name = "read_state"
    /\ Len(sent) = 1
    /\ sent[1].command = GET_PERF_MODE
    /\ sent[1].frame = <<StatusSuccessful, 0>>
    /\ sent[1].reply = Ok(<<>>)
    /\ result = Err(ErrPanic)

\* the callers inside send
InSend == {c \in Callers : callers[c].pc # "out"}

-----------------------------------------------------------------------------
(* packet.rs and device.rs at the level of bytes: construction as a call   *)
(* that may panic, the bincode layout, decoding of a buffer the device     *)
(* filled, and the byte counts of Device::send.                            *)

\* std::mem::size_of::<Packet>()
PacketSize == 90

\* the buffers of send: 1 + size_of::<Packet>()
ReportSize == 1 + PacketSize

\* n bytes b
Fill(n, b) == [i \in 1..n |-> b]

\* variant: an oversized args is cut to the buffer
Packet_new_truncating(command, args, id) ==
    IF Len(args) > ArgsLen
    THEN Ok([PacketNew(command, SubSeq(args, 1, ArgsLen), id)
               EXCEPT !.data_size = Len(args) % 256])
    ELSE Ok(PacketNew(command, args, id))

\* Packet::new as a call: args_buffer[..args.len()] is out of range for more
\* than 80 bytes and the thread panics; the function has no error value
Packet_new(command, args, id) ==
    IF Len(args) > ArgsLen THEN Err(ErrPanic) ELSE Ok(PacketNew(command, args, id))

\* Packet::get_args as a call: &self.args[..data_size] is out of range for a
\* data_size above 80 and the thread panics
GetArgsCall(p) == IF p.data_size > ArgsLen THEN Err(ErrPanic) ELSE Ok(get_args(p))

\* variant: the argument array is written as a sequence, its u64 length first
PacketBytesPrefixed(p) ==
    <<p.status, p.id, p.remaining_packets % 256, p.remaining_packets \div 256,
      p.protocol_type, p.data_size, p.command_class, p.command_id>>
      \o <<ArgsLen, 0, 0, 0, 0, 0, 0, 0>> \o p.args \o <<p.crc, p.reserved>>

\* bincode::serialize(packet): the fields in declaration order, integers at
\* fixed width and little-endian, the array without a length
PacketBytes(p) ==
    <<p.status, p.id, p.remaining_packets % 256, p.remaining_packets \div 256,
      p.protocol_type, p.data_size, p.command_class, p.command_id>>
      \o p.args \o <<p.crc, p.reserved>>

\* ensure!(data.len() == size_of::<Packet>(), "Invalid raw data size")
ErrInvalidRawData == "InvalidRawDataSize"

\* variant: a slice of 90 bytes or more is decoded from its first 90
TryFromBytesAtLeast(data) ==
    IF Len(data) < PacketSize THEN Err(ErrInvalidRawData)
    ELSE Ok([status |-> data[1],
             id |-> data[2],
             remaining_packets |-> data[3] + (256 * data[4]),
             protocol_type |-> data[5],
             data_size |-> data[6],
             command_class |-> data[7],
             command_id |-> data[8],
             args |-> SubSeq(data, 9, 8 + ArgsLen),
             crc |-> data[9 + ArgsLen],
             reserved |-> data[10 + ArgsLen]])

\* Packet::try_from(&[u8]): the length check, then bincode::deserialize
TryFromBytes(data) ==
    IF Len(data) # PacketSize THEN Err(ErrInvalidRawData)
    ELSE Ok([status |-> data[1],
             id |-> data[2],
             remaining_packets |-> data[3] + (256 * data[4]),
             protocol_type |-> data[5],
             data_size |-> data[6],
             command_class |-> data[7],
             command_id |-> data[8],
             args |-> SubSeq(data, 9, 8 + ArgsLen),
             crc |-> data[9 + ArgsLen],
             reserved |-> data[10 + ArgsLen]])

\* the report send writes: the report id 0, then the packet
ReportBytes(report) == <<0>> \o PacketBytes(report)

\* RazerError::InvalidDataSize { expected, actual }
InvalidDataSize(expected, actual) ==
    [kind |-> ErrInvalidDataSize, val |-> <<expected, actual>>]

\* variant: the buffer is decoded and correlated before the count is looked at
ReceiveDecodeFirst(report, response_buf, bytes_read) ==
    LET p == TryFromBytes(SubSeq(response_buf, 2, Len(response_buf)))
        r == IF IsOk(p) THEN ensure_matches_report(p.val, report) ELSE p
    IN  IF ~IsOk(r) THEN r
        ELSE IF Len(response_buf) # bytes_read
        THEN InvalidDataSize(Len(response_buf), bytes_read)
        ELSE r

\* send after get_feature_report returned bytes_read: the count check, then
\* (&response_buf[1..]).try_into()? and ensure_matches_report
Receive(report, response_buf, bytes_read) ==
    IF Len(response_buf) # bytes_read
    THEN InvalidDataSize(Len(response_buf), bytes_read)
    ELSE LET p == TryFromBytes(SubSeq(response_buf, 2, Len(response_buf)))
         IN  IF IsOk(p) THEN ensure_matches_report(p.val, report) ELSE p

\* one more byte than the argument buffer holds
OverLen == 81

\* the commands, argument slices and ids packets are built from
WireCommands == {SET_PERF_MODE, GET_BATTERY_CARE, 65535}
WireArgs == {<<>>, <<1, 4, 2>>, Fill(ArgsLen, 7), Fill(OverLen, 7)}

\* the byte the device may put at offset 5 of its response
SizeBytes == {0, 3, ArgsLen, OverLen, 255}

\* the byte counts get_feature_report may report for the 91-byte buffer
ReadCounts == {0, PacketSize, ReportSize}

\* what the response buffer may hold when get_feature_report returns: the
\* answer to the report, the answer to a report with another id, or the zeros
\* it was created with
BufferKinds == {"answer", "stale", "zero"}

ResponseBuffer(report, k) ==
    IF k = "answer"
    THEN <<0>> \o PacketBytes(Response(report, StatusSuccessful, get_args(report)))
    ELSE IF k = "stale"
    THEN <<0>> \o PacketBytes([Response(report, StatusSuccessful, get_args(report))
                                 EXCEPT !.id = (report.id + 1) % 256])
    ELSE Fill(ReportSize, 0)

\* the device: the data_size byte it answers with and the count its driver
\* reports
InitWire ==
    /\ device \in {[size |-> s, count |-> c] : s \in SizeBytes, c \in ReadCounts}
    /\ features = {}
    /\ op = NoCall
    /\ sent = <<>>
    /\ result = Ok(<<>>)
    /\ callers = [c \in Callers |-> Resting]

\* Packet::new(command, args)
New ==
    /\ Idle
    /\ \E command \in WireCommands, args \in WireArgs, id \in Ids :
         /\ op' = [name |-> "new", args |-> <<command, args, id>>]
         /\ result' = Packet_new(command, args, id)
    /\ UNCHANGED <<device, features, sent, callers>>

\* let bytes: Vec<u8> = (&packet).into()
Serialize ==
    /\ op.name = "new"
    /\ IsOk(result)
    /\ op' = [name |-> "serialize", args |-> <<result.val>>]
    /\ result' = Ok(PacketBytes(result.val))
    /\ UNCHANGED <<device, features, sent, callers>>

\* Packet::try_from(bytes.as_slice()) on the bytes just written
Deserialize ==
    /\ op.name = "serialize"
    /\ op' = [name |-> "deserialize", args |-> <<op.args[1], result.val>>]
    /\ result' = TryFromBytes(result.val)
    /\ UNCHANGED <<device, features, sent, callers>>

\* Packet::try_from on the response the device wrote for the packet, with the
\* device's byte at offset 5
Decode ==
    /\ op.name = "serialize"
    /\ LET answer == Response(op.args[1], StatusSuccessful, get_args(op.args[1]))
           data == [PacketBytes(answer) EXCEPT ![6] = device.size]
       IN  /\ op' = [name |-> "decode", args |-> <<op.args[1], data>>]
           /\ result' = TryFromBytes(data)
    /\ UNCHANGED <<device, features, sent, callers>>

\* packet.get_args() on a packet that was built or decoded
ArgsUsed ==
    /\ op.name \in {"new", "deserialize", "decode"}
    /\ IsOk(result)
    /\ op' = [name |-> "get_args", args |-> <<result.val, op.name>>]
    /\ result' = GetArgsCall(result.val)
    /\ UNCHANGED <<device, features, sent, callers>>

\* Device::send of a packet that was built, seen at its two buffers
SendBytes ==
    /\ op.name = "new"
    /\ IsOk(result)
    /\ \E k \in BufferKinds :
         LET buf == ResponseBuffer(result.val, k)
         IN  /\ sent' = <<[written |-> ReportBytes(result.val), buffer |-> buf,
                           kind |-> k, bytes_read |-> device.count]>>
             /\ result' = Receive(result.val, buf, device.count)
    /\ op' = [name |-> "send", args |-> <<result.val>>]
    /\ UNCHANGED <<device, features, callers>>

\* the lengths of the slices handed to Packet::try_from
SliceLens == {0, 50, PacketSize - 1, PacketSize, ReportSize, 2 * PacketSize}

\* Packet::try_from on the first n of the packet's bytes followed by zeros
TryFromSlice ==
    /\ op.name = "serialize"
    /\ \E n \in SliceLens :
         LET data == SubSeq(result.val \o Fill(PacketSize, 0), 1, n)
         IN  /\ op' = [name |-> "try_from", args |-> <<data>>]
             /\ result' = TryFromBytes(data)
    /\ UNCHANGED <<device, features, sent, callers>>

NextWire ==
    \/ TakeResult
    \/ New \/ Serialize \/ Deserialize \/ Decode \/ ArgsUsed \/ SendBytes
    \/ TryFromSlice

SpecWire == InitWire /\ [][NextWire]_vars

-----------------------------------------------------------------------------
(* device.rs, blade-helper device.rs: the platform probe, enumeration,      *)
(* detection, opening and the cached detection.  Strings that are compared  *)
(* by prefix are sequences of characters; error messages are sequences of   *)
(* words.  The machine is a record: the build's platform, the product SKU   *)
(* (or the error of reading it), what hidapi lists (or the error of         *)
(* starting it), whether /sys/bus/usb/devices holds a device of vendor      *)
(* 1532, and the configuration file.                                        *)

\* const RAZER_VID: u16 = 0x1532
RAZER_VID == 5426

\* "RZ" and "RZ09-"
RZ == <<"R", "Z">>
RZ09 == <<"R", "Z", "0", "9", "-">>

\* s.chars().take(n).collect()
Take(s, n) == SubSeq(s, 1, IF Len(s) < n THEN Len(s) ELSE n)

\* the catalog: two descriptors with the model prefix RZ09-0483T and one with
\* RZ09-0421N
SUPPORTED ==
    <<[pid |-> 671, name |-> "Blade16",
       model_number_prefix |-> <<"R", "Z", "0", "9", "-", "0", "4", "8", "3", "T">>],
      [pid |-> 694, name |-> "Blade16b",
       model_number_prefix |-> <<"R", "Z", "0", "9", "-", "0", "4", "8", "3", "T">>],
      [pid |-> 653, name |-> "Blade14",
       model_number_prefix |-> <<"R", "Z", "0", "9", "-", "0", "4", "2", "1", "N">>]>>

\* the RazerError values of detection
NoDevicesFound == [kind |-> "NoDevicesFound", val |-> <<>>]
UnsupportedPlatform == [kind |-> "UnsupportedPlatform", val |-> <<>>]
ModelDetectionFailed(reason) == [kind |-> "ModelDetectionFailed", val |-> <<reason>>]
InvalidModel(model) == [kind |-> "InvalidModel", val |-> <<model>>]
UnsupportedModel(model, pids) == [kind |-> "UnsupportedModel", val |-> <<model, pids>>]
DeviceOpenFailed(name, reason) == [kind |-> "DeviceOpenFailed", val |-> <<name, reason>>]
HidError(message) == [kind |-> ErrHid, val |-> <<message>>]

\* "no matching device found"
NoMatchingDevice == <<"no", "matching", "device", "found">>

\* #[error(..)]: the message of an error, word by word; a model, a PID list or
\* a device name stands as one word
to_string(e) ==
    CASE e.kind = "NoDevicesFound" -> <<"No", "Razer", "devices", "found">>
      [] e.kind = "UnsupportedPlatform" ->
           <<"Automatic", "model", "detection", "is", "not", "implemented",
             "for", "this", "platform">>
      [] e.kind = "ModelDetectionFailed" ->
           <<"Failed", "to", "detect", "model:">> \o e.val[1]
      [] e.kind = "InvalidModel" ->
           <<"Detected", "model", "but", "it's", "not", "a", "Razer", "laptop:",
             "{model}">>
      [] e.kind = "UnsupportedModel" ->
           <<"Model", "{model}", "with", "PIDs", "{pids}", "is", "not", "supported">>
      [] e.kind = "DeviceOpenFailed" ->
           <<"Failed", "to", "open", "device", e.val[1], ":">> \o e.val[2]
      [] e.kind = ErrHid -> <<"HID", "error:">> \o e.val[1]

\* str::to_lowercase, for the words of the messages
LowerWord(w) ==
    CASE w = "No" -> "no" [] w = "Razer" -> "razer" [] w = "Automatic" -> "automatic"
      [] w = "Failed" -> "failed" [] w = "SKU:" -> "sku:" [] w = "Detected" -> "detected"
      [] w = "Model" -> "model" [] w = "PIDs" -> "pids" [] w = "HID" -> "hid"
      [] w = "Permission" -> "permission" [] w = "Invalid" -> "invalid"
      [] w = "Blade16" -> "blade16"
      [] w = "Blade16b" -> "blade16b" [] w = "Blade14" -> "blade14"
      [] OTHER -> w

ToLowercase(msg) == [i \in 1..Len(msg) |-> LowerWord(msg[i])]

\* str::contains, for a needle of whole words
Contains(msg, needle) ==
    \E i \in 0..(Len(msg) - Len(needle)) :
        SubSeq(msg, i + 1, i + Len(needle)) = needle

\* the messages hidapi and the file system give
PermissionDeniedText == <<"Permission", "denied">>
InvalidArgumentText == <<"Invalid", "argument">>
InitializationText == <<"Failed", "to", "initialize", "hidapi">>

\* read_device_model, by platform
read_device_model(d) ==
    IF d.platform = "linux"
    THEN IF ~IsOk(d.sku)
         THEN ModelDetectionFailed(
                <<"Failed", "to", "read", "product", "SKU:">> \o d.sku.val)
         ELSE IF StartsWith(d.sku.val, RZ) THEN Ok(Take(d.sku.val, 10))
         ELSE InvalidModel(d.sku.val)
    ELSE IF d.platform = "windows"
    THEN IF ~IsOk(d.sku) THEN ModelDetectionFailed(d.sku.val)
         ELSE Ok(Take(d.sku.val, 10))
    ELSE UnsupportedPlatform

\* variant: every listed HID device counts, whatever its vendor
AllEntries(list) == 1..Len(list)

\* the positions of the HID devices of vendor 0x1532 in the list
RazerEntries(list) == {i \in 1..Len(list) : list[i].vendor = RAZER_VID}

\* Device::enumerate; steps is what it consulted, in order
enumerate(d) ==
    IF ~IsOk(d.api)
    THEN [res |-> HidError(d.api.val), steps |-> <<>>]
    ELSE LET pids == {d.api.val[i].pid : i \in RazerEntries(d.api.val)}
             model == read_device_model(d)
         IN  IF pids = {}
             THEN [res |-> NoDevicesFound, steps |-> <<<<"device_list", 0>>>>]
             ELSE [res |-> IF ~IsOk(model) THEN model
                           ELSE IF StartsWith(model.val, RZ09)
                           THEN Ok([pids |-> pids, model |-> model.val])
                           ELSE InvalidModel(model.val),
                   steps |-> <<<<"device_list", 0>>, <<"read_device_model", 0>>>>]

\* the ascending sequence of the members of a set of numbers
RECURSIVE Ascending(_)
Ascending(S) ==
    IF S = {} THEN <<>>
    ELSE LET m == CHOOSE x \in S : \A y \in S : x <= y
         IN  <<m>> \o Ascending(S \ {m})

\* the paths of (RAZER_VID, pid), in the order of the list
Candidates(list, pid) == Ascending({i \in RazerEntries(list) : list[i].pid = pid})

\* variant: every candidate is tried and the last that worked is kept
RECURSIVE WalkAll(_, _, _, _, _, _, _)
WalkAll(list, descriptor, cands, k, last_error, kept, steps) ==
    IF k > Len(cands)
    THEN [res |-> IF kept # <<>> THEN Ok([info |-> descriptor, path |-> kept[1]])
                  ELSE DeviceOpenFailed(descriptor.name,
                         IF last_error = <<>> THEN NoMatchingDevice ELSE last_error[1]),
          steps |-> steps]
    ELSE LET i == cands[k]
             opened == steps \o <<<<"open_path", i>>>>
             probed == opened \o <<<<"send_feature_report", i, Fill(91, 0)>>>>
         IN  IF list[i].open # <<>>
             THEN WalkAll(list, descriptor, cands, k + 1, <<list[i].open>>, kept, opened)
             ELSE IF list[i].probe # <<>>
             THEN WalkAll(list, descriptor, cands, k + 1, <<list[i].probe>>, kept, probed)
             ELSE WalkAll(list, descriptor, cands, k + 1, last_error, <<i>>, probed)

\* the loop of Device::new from candidate k on: open_path, then the probe
\* send_feature_report(&[0u8; 91]); an error of either is kept as last_error
RECURSIVE Walk(_, _, _, _, _, _, _)
Walk(list, descriptor, cands, k, last_error, kept, steps) ==
    IF k > Len(cands)
    THEN [res |-> DeviceOpenFailed(descriptor.name,
                    IF last_error = <<>> THEN NoMatchingDevice ELSE last_error[1]),
          steps |-> steps]
    ELSE LET i == cands[k]
             opened == steps \o <<<<"open_path", i>>>>
             probed == opened \o <<<<"send_feature_report", i, Fill(91, 0)>>>>
         IN  IF list[i].open # <<>>
             THEN Walk(list, descriptor, cands, k + 1, <<list[i].open>>, kept, opened)
             ELSE IF list[i].probe # <<>>
             THEN Walk(list, descriptor, cands, k + 1, <<list[i].probe>>, kept, probed)
             ELSE [res |-> Ok([info |-> descriptor, path |-> i]), steps |-> probed]

\* Device::new
Device_new(d, descriptor) ==
    IF ~IsOk(d.api)
    THEN [res |-> HidError(d.api.val), steps |-> <<>>]
    ELSE Walk(d.api.val, descriptor, Candidates(d.api.val, descriptor.pid),
              1, <<>>, <<>>, <<>>)

\* SUPPORTED.iter().find(|s| model.starts_with(s.model_number_prefix))
FindByModel(model) ==
    LET hits == {i \in 1..Len(SUPPORTED) :
                   StartsWith(model, SUPPORTED[i].model_number_prefix)}
    IN  IF hits = {} THEN <<>> ELSE <<SUPPORTED[Ascending(hits)[1]]>>

\* variant: the first matching descriptor whose PID was enumerated
FindByModelAndPid(enumeration) ==
    LET hits == {i \in 1..Len(SUPPORTED) :
                   /\ StartsWith(enumeration.model, SUPPORTED[i].model_number_prefix)
                   /\ SUPPORTED[i].pid \in enumeration.pids}
    IN  IF hits = {} THEN <<>> ELSE <<SUPPORTED[Ascending(hits)[1]]>>

\* the descriptor detect chooses from an enumeration
Chosen(enumeration) == FindByModel(enumeration.model)

\* Device::detect
detect(d) ==
    LET e == enumerate(d)
    IN  IF ~IsOk(e.res) THEN e
        ELSE LET found == Chosen(e.res.val)
             IN  IF found = <<>>
                 THEN [res |-> UnsupportedModel(e.res.val.model, e.res.val.pids),
                       steps |-> e.steps]
                 ELSE LET o == Device_new(d, found[1])
                      IN  [res |-> o.res, steps |-> e.steps \o o.steps]

\* razer_device_exists: the scan of /sys/bus/usb/devices on Linux, false elsewhere
razer_device_exists(d) == d.platform = "linux" /\ d.usb

\* the message tests of BladeDevice::detect
LooksInvalidArgument(msg) ==
    Contains(msg, <<"einval">>) \/ Contains(msg, <<"invalid", "argument">>)
LooksPermission(msg) ==
    \/ Contains(msg, <<"permission">>)
    \/ Contains(msg, <<"access", "denied">>)
    \/ Contains(msg, <<"operation", "not", "permitted">>)

\* variant: only /sys decides
ClassifySysOnly(d, e) ==
    IF razer_device_exists(d) THEN Err("PermissionDenied") ELSE Err("DeviceNotFound")

\* variant: the permission tests come first and "invalid argument" last
ClassifyPermissionFirst(d, e) ==
    LET err_msg == ToLowercase(to_string(e))
    IN  IF LooksPermission(err_msg) THEN Err("PermissionDenied")
        ELSE IF razer_device_exists(d) THEN Err("PermissionDenied")
        ELSE IF LooksInvalidArgument(err_msg) THEN Err("DeviceNotFound")
        ELSE Err("DeviceNotFound")

\* the map_err closure of BladeDevice::detect
Classify(d, e) ==
    LET err_msg == ToLowercase(to_string(e))
    IN  IF LooksInvalidArgument(err_msg) THEN Err("DeviceNotFound")
        ELSE IF LooksPermission(err_msg) THEN Err("PermissionDenied")
        ELSE IF razer_device_exists(d) THEN Err("PermissionDenied")
        ELSE Err("DeviceNotFound")

\* BladeDevice::detect; cause is the library's error behind a facade error, and
\* the steps begin with the call of Device::detect
BladeDetect(d) ==
    LET o == detect(d)
        steps == <<<<"Device::detect", 0>>>> \o o.steps
    IN  IF IsOk(o.res) THEN [res |-> o.res, steps |-> steps, cause |-> <<>>]
        ELSE [res |-> Classify(d, o.res), steps |-> steps, cause |-> <<o.res>>]

\* SUPPORTED.iter().find(|d| d.pid == cached_pid)
FindByPid(pid) ==
    LET hits == {i \in 1..Len(SUPPORTED) : SUPPORTED[i].pid = pid}
    IN  IF hits = {} THEN <<>> ELSE <<SUPPORTED[Ascending(hits)[1]]>>

\* ConfigManager::set_cached_device followed by save; a failed save leaves
\* the file as it was
set_cached_device(config, pid) ==
    IF config.writable THEN [config EXCEPT !.cached_pid = <<pid>>] ELSE config

\* the cached attempt of detect_with_cache
CachedAttempt(d) ==
    IF ~d.config.loads THEN [res |-> Err("NoCache"), steps |-> <<<<"load", 0>>>>]
    ELSE IF d.config.cached_pid = <<>>
    THEN [res |-> Err("NoCache"), steps |-> <<<<"load", 0>>>>]
    ELSE LET desc == FindByPid(d.config.cached_pid[1])
         IN  IF desc = <<>>
             THEN [res |-> Err("NoCache"), steps |-> <<<<"load", 0>>>>]
             ELSE LET o == Device_new(d, desc[1])
                  IN  [res |-> o.res,
                       steps |-> <<<<"load", 0>>, <<"Device::new", desc[1].pid>>>>
                                   \o o.steps]

\* variant: full detection runs first and the cache is only written
detect_with_cache_detect_first(d) ==
    LET f == BladeDetect(d)
    IN  IF ~IsOk(f.res) THEN [dev |-> d, res |-> f.res, steps |-> f.steps]
        ELSE IF ~d.config.loads
        THEN [dev |-> d, res |-> f.res, steps |-> f.steps \o <<<<"load", 0>>>>]
        ELSE [dev |-> [d EXCEPT !.config = set_cached_device(@, f.res.val.info.pid)],
              res |-> f.res,
              steps |-> f.steps \o <<<<"load", 0>>,
                                     <<"set_cached_device", f.res.val.info.pid>>>>]

\* variant: a failed full detection clears the cached PID
detect_with_cache_clearing(d) ==
    LET c == CachedAttempt(d)
    IN  IF IsOk(c.res) THEN [dev |-> d, res |-> c.res, steps |-> c.steps]
        ELSE LET f == BladeDetect(d)
                 tried == c.steps \o f.steps
             IN  IF ~IsOk(f.res)
                 THEN [dev |-> [d EXCEPT !.config.cached_pid = <<>>],
                       res |-> f.res, steps |-> tried]
                 ELSE IF ~d.config.loads
                 THEN [dev |-> d, res |-> f.res, steps |-> tried \o <<<<"load", 0>>>>]
                 ELSE [dev |-> [d EXCEPT !.config =
                                  set_cached_device(@, f.res.val.info.pid)],
                       res |-> f.res,
                       steps |-> tried \o <<<<"load", 0>>,
                                          <<"set_cached_device", f.res.val.info.pid>>>>]

\* BladeDevice::detect_with_cache
detect_with_cache(d) ==
    LET c == CachedAttempt(d)
    IN  IF IsOk(c.res) THEN [dev |-> d, res |-> c.res, steps |-> c.steps]
        ELSE LET f == BladeDetect(d)
                 tried == c.steps \o f.steps
             IN  IF ~IsOk(f.res) THEN [dev |-> d, res |-> f.res, steps |-> tried]
                 ELSE IF ~d.config.loads
                 THEN [dev |-> d, res |-> f.res, steps |-> tried \o <<<<"load", 0>>>>]
                 ELSE [dev |-> [d EXCEPT !.config =
                                  set_cached_device(@, f.res.val.info.pid)],
                       res |-> f.res,
                       steps |-> tried \o <<<<"load", 0>>,
                                          <<"set_cached_device", f.res.val.info.pid>>>>]

\* the most HID devices hidapi lists
MaxHid == 2

\* a HID device of another vendor whose product id is a catalog PID
ForeignEntry == [vendor |-> 1133, pid |-> 671, open |-> <<>>, probe |-> <<>>]

\* what open_path and the probe do on one path of a Razer HID device: <<>> for
\* success, the error's message otherwise
PathOutcomes ==
    {[open |-> PermissionDeniedText, probe |-> <<>>],
     [open |-> <<>>, probe |-> InvalidArgumentText],
     [open |-> <<>>, probe |-> <<>>]}

HidEntries ==
    {ForeignEntry}
      \cup {[vendor |-> RAZER_VID, pid |-> p, open |-> o.open, probe |-> o.probe]
              : p \in {671, 694}, o \in PathOutcomes}

\* HidApi::new() and device_list(): a list, or the error of starting hidapi
ApiStates ==
    {Ok(l) : l \in UNION {[1..n -> HidEntries] : n \in 0..MaxHid}}
      \cup {[kind |-> ErrHid, val |-> InitializationText]}

\* the product SKU: a listed model, an unlisted Razer laptop, a Razer product
\* that is not a laptop, another maker's machine, or a file that cannot be read
Skus ==
    {Ok(<<"R", "Z", "0", "9", "-", "0", "4", "8", "3", "T", "E", "H", "3">>),
     Ok(<<"R", "Z", "0", "9", "-", "9", "9", "9", "9", "X", "Y">>),
     Ok(<<"R", "Z", "0", "8", "-", "0", "1", "2", "3", "A", "B">>),
     Ok(<<"2", "0", "X", "W", "0", "0", "4", "U", "S">>),
     [kind |-> "IoError", val |-> PermissionDeniedText]}

\* the build and what it reads the model from
Platforms ==
    {[platform |-> p, sku |-> s] : p \in {"linux", "windows"}, s \in Skus}
      \cup {[platform |-> "other", sku |-> [kind |-> "IoError", val |-> <<>>]]}

\* the configuration file: unreadable, without a cached PID, with a catalog
\* PID, with a PID the catalog lacks and a file that cannot be written
Configs ==
    {[loads |-> FALSE, cached_pid |-> <<>>, writable |-> TRUE],
     [loads |-> TRUE, cached_pid |-> <<>>, writable |-> TRUE],
     [loads |-> TRUE, cached_pid |-> <<694>>, writable |-> TRUE],
     [loads |-> TRUE, cached_pid |-> <<4660>>, writable |-> FALSE]}

InitDetect ==
    /\ device \in {[platform |-> m.platform, sku |-> m.sku, api |-> a,
                    usb |-> u, config |-> c]
                     : m \in Platforms, a \in ApiStates, u \in BOOLEAN, c \in Configs}
    /\ features = {}
    /\ op = NoCall
    /\ sent = <<>>
    /\ result = Ok(<<>>)
    /\ callers = [c \in Callers |-> Resting]

\* the call `name` ends with o.res after the steps o.steps; args is what the
\* caller knew
Returned(o, name, args) ==
    /\ sent' = o.steps
    /\ result' = o.res
    /\ op' = [name |-> name, args |-> args]
    /\ UNCHANGED <<features, callers>>

Enumerate ==
    /\ Idle
    /\ Returned(enumerate(device), "enumerate", <<>>)
    /\ UNCHANGED device

Detect ==
    /\ Idle
    /\ Returned(detect(device), "detect", <<>>)
    /\ UNCHANGED device

Open ==
    /\ Idle
    /\ \E i \in 1..Len(SUPPORTED) :
         Returned(Device_new(device, SUPPORTED[i]), "new", <<SUPPORTED[i]>>)
    /\ UNCHANGED device

FacadeDetect ==
    /\ Idle
    /\ LET o == BladeDetect(device) IN Returned(o, "facade_detect", o.cause)
    /\ UNCHANGED device

DetectWithCache ==
    /\ Idle
    /\ LET o == detect_with_cache(device)
       IN  /\ Returned(o, "detect_with_cache", <<device.config>>)
           /\ device' = o.dev

NextDetect ==
    \/ TakeResult
    \/ Enumerate \/ Detect \/ Open \/ FacadeDetect \/ DetectWithCache

SpecDetect == InitDetect /\ [][NextDetect]_vars

-----------------------------------------------------------------------------
(* get_logo_mode                                                            *)

\* what get_logo_mode makes of the byte at args[2] of a pattern answer
PatternResult(e) ==
    IF ~IsOk(e.reply) THEN e.reply
    ELSE IF Len(e.reply.val) < 3 THEN Err(ErrPanic)
    ELSE IF e.reply.val[3] = 0 THEN Ok(<<"Static">>)
    ELSE IF e.reply.val[3] = 2 THEN Ok(<<"Breathing">>)
    ELSE Err(ErrProtocol)

\* C27: get_logo_mode first reads the power state with 0x0380 [1, 4, 0]; when
\* args[2] of the answer is 0 it returns Off and sends nothing more; when it is
\* 1 exactly one pattern read 0x0382 [1, 4, 0] follows, whose args[2] = 0
\* returns Static and 2 returns Breathing; any other power byte is an error
\* with no second packet and any other pattern byte is an error.
C27_LogoModeReads ==
    op.name = "get_logo_mode"
    => /\ Len(sent) \in {1, 2}
       /\ Packets(sent)[1] = <<896, <<1, 4, 0>>>>
       /\ LET p == sent[1].reply
          IN  IF ~IsOk(p) THEN Len(sent) = 1 /\ result = p
              ELSE IF Len(p.val) < 3 THEN Len(sent) = 1 /\ result = Err(ErrPanic)
              ELSE IF p.val[3] = 0 THEN Len(sent) = 1 /\ result = Ok(<<"Off">>)
              ELSE IF p.val[3] = 1
              THEN /\ Len(sent) = 2
                   /\ Packets(sent)[2] = <<898, <<1, 4, 0>>>>
                   /\ result = PatternResult(sent[2])
                   /\ IsOk(result) <=> /\ IsOk(sent[2].reply)
                                       /\ Len(sent[2].reply.val) >= 3
                                       /\ sent[2].reply.val[3] \in {0, 2}
              ELSE Len(sent) = 1 /\ ~IsOk(result) /\ result # Err(ErrPanic)

\* a powered, breathing logo was read with two packets
C27_BreathingRead ==
    /\ op.name = "get_logo_mode"
    /\ Len(sent) = 2
    /\ sent[1].reply = Ok(<<1, 4, 1>>)
    /\ sent[2].reply = Ok(<<1, 4, 2>>)
    /\ result = Ok(<<"Breathing">>)

\* a power byte that is neither 0 nor 1 was answered and the call failed
C27_OtherPowerByte ==
    /\ op.name = "get_logo_mode"
    /\ Len(sent) = 1
    /\ IsOk(sent[1].reply)
    /\ sent[1].reply.val = <<238, 238, 238>>
    /\ ~IsOk(result)

-----------------------------------------------------------------------------
(* Packet construction, access and the wire                                 *)

\* the packet Packet::new(command, args) is to yield, id apart
BuiltAs(p, command, args) ==
    /\ p.status = StatusNew
    /\ p.command_class = command \div 256
    /\ p.command_id = command % 256
    /\ p.data_size = Len(args)
    /\ Len(p.args) = ArgsLen
    /\ SubSeq(p.args, 1, Len(args)) = args
    /\ \A i \in (Len(args) + 1)..ArgsLen : p.args[i] = 0
    /\ p.remaining_packets = 0
    /\ p.reserved = 0

\* C28, as stated: Packet::new returns an error to the caller for args of more
\* than 80 bytes, and for at most 80 bytes yields status New, the command's
\* high and low byte, data_size = the length of args, the args at the head of
\* the zeroed 80-byte buffer, and remaining_packets = reserved = 0.
C28_OversizedArgsReturnError ==
    op.name = "new"
    => IF Len(op.args[2]) > ArgsLen
       THEN ~IsOk(result) /\ result # Err(ErrPanic)
       ELSE IsOk(result) /\ BuiltAs(result.val, op.args[1], op.args[2])

\* C28, amended: Packet::new panics for args of more than 80 bytes, so the
\* caller gets neither a packet nor an error value; for at most 80 bytes it
\* yields the packet the claim describes.
C28_OversizedArgsPanic ==
    op.name = "new"
    => IF Len(op.args[2]) > ArgsLen
       THEN result = Err(ErrPanic)
       ELSE IsOk(result) /\ BuiltAs(result.val, op.args[1], op.args[2])

\* Packet::new was called with 81 bytes
C28_NewWith81Bytes ==
    /\ op.name = "new"
    /\ Len(op.args[2]) = ArgsLen + 1
    /\ ~IsOk(result)

\* C29, as stated: every packet, built or decoded from a 90-byte buffer, has
\* data_size at most 80 and get_args returns exactly its first data_size
\* argument bytes.
C29_DataSizeBounded ==
    /\ op.name \in {"new", "deserialize", "decode"} /\ IsOk(result)
         => result.val.data_size <= ArgsLen
    /\ op.name = "get_args"
         => /\ IsOk(result)
            /\ Len(result.val) = op.args[1].data_size
            /\ IsPrefix(result.val, op.args[1].args)

\* C29, the rest: a packet built by new, or decoded from the bytes new's
\* packet was written to, has data_size at most 80 and get_args returns its
\* first data_size argument bytes; a packet decoded from a response carries the
\* byte at offset 5 as its data_size unchecked, and get_args panics on it when
\* that byte is above 80.
C29_BoundedUnlessDeviceByte ==
    /\ op.name \in {"new", "deserialize"} /\ IsOk(result)
         => result.val.data_size <= ArgsLen
    /\ op.name = "decode"
         => IsOk(result) /\ result.val.data_size = device.size
    /\ op.name = "get_args"
         => IF op.args[1].data_size <= ArgsLen
            THEN /\ IsOk(result)
                 /\ Len(result.val) = op.args[1].data_size
                 /\ IsPrefix(result.val, op.args[1].args)
            ELSE op.args[2] = "decode" /\ result = Err(ErrPanic)

\* get_args was called on a decoded response whose byte at offset 5 is 81
C29_DecodedSize81 ==
    /\ op.name = "get_args"
    /\ op.args[2] = "decode"
    /\ op.args[1].data_size = ArgsLen + 1
    /\ ~IsOk(result)

\* C30: for every command and every args of at most 80 bytes, the packet new
\* built serializes to exactly 90 bytes, and deserializing those bytes yields
\* a packet with the same command_class, command_id, data_size and get_args.
C30_SerializationRoundTrip ==
    /\ op.name = "serialize" => Len(result.val) = 90
    /\ op.name = "deserialize"
         => /\ Len(op.args[2]) = 90
            /\ IsOk(result)
            /\ result.val.command_class = op.args[1].command_class
            /\ result.val.command_id = op.args[1].command_id
            /\ result.val.data_size = op.args[1].data_size
            /\ GetArgsCall(result.val) = GetArgsCall(op.args[1])
            /\ IsOk(GetArgsCall(result.val))

\* a packet with all 80 argument bytes used went to bytes and back
C30_FullPacketRestored ==
    /\ op.name = "deserialize"
    /\ op.args[1].data_size = ArgsLen
    /\ op.args[1].command_class = 255
    /\ IsOk(result)
    /\ get_args(result.val) = Fill(ArgsLen, 7)

\* C25: send writes 91 bytes, the report id 0 and then the 90 bytes of the
\* packet, and when the driver reports a read of any count other than 91 it
\* fails with InvalidDataSize{expected: 91, actual: the count}, whatever the
\* buffer holds (a correlated answer, another exchange's answer, or zeros).
C25_ReportFraming ==
    op.name = "send"
    => /\ Len(sent[1].written) = 91
       /\ sent[1].written[1] = 0
       /\ SubSeq(sent[1].written, 2, 91) = PacketBytes(op.args[1])
       /\ Len(PacketBytes(op.args[1])) = 90
       /\ sent[1].bytes_read # 91
            => result = InvalidDataSize(91, sent[1].bytes_read)
       /\ sent[1].bytes_read = 91
            => /\ result.kind # ErrInvalidDataSize
               /\ sent[1].kind = "answer" <=> IsOk(result)

\* the driver reported 90 bytes although the buffer holds another exchange's
\* answer
C25_ShortReadOfStaleAnswer ==
    /\ op.name = "send"
    /\ sent[1].bytes_read = 90
    /\ sent[1].kind = "stale"
    /\ result = InvalidDataSize(91, 90)

-----------------------------------------------------------------------------
(* Detection                                                                *)

\* the product ids of the listed HID devices of vendor 0x1532
EnumeratedPids ==
    {device.api.val[i].pid
       : i \in {j \in 1..Len(device.api.val) : device.api.val[j].vendor = 5426}}

\* the first ten characters of the product SKU
PlatformModel == SubSeq(device.sku.val, 1, 10)

\* the machine is one on which enumerate returns the PIDs and a model
Enumerable ==
    /\ IsOk(device.api)
    /\ EnumeratedPids # {}
    /\ device.platform \in {"linux", "windows"}
    /\ IsOk(device.sku)
    /\ SubSeq(device.sku.val, 1, 5) = <<"R", "Z", "0", "9", "-">>

\* the catalog positions whose model prefix begins the platform model
ModelMatches ==
    {i \in 1..Len(SUPPORTED) :
       LET prefix == SUPPORTED[i].model_number_prefix
       IN  SubSeq(PlatformModel, 1, Len(prefix)) = prefix}

\* C22: detect opens the first catalog descriptor whose model prefix is a
\* prefix of the platform model, whether or not its PID is among the enumerated
\* PIDs; when no descriptor matches it fails with UnsupportedModel carrying the
\* model and the enumerated PIDs.
C22_ModelPrefixChoosesDescriptor ==
    op.name = "detect" /\ Enumerable
    => IF ModelMatches = {}
       THEN result = UnsupportedModel(PlatformModel, EnumeratedPids)
       ELSE LET first == CHOOSE i \in ModelMatches : \A j \in ModelMatches : i <= j
            IN  /\ IsOk(result) => result.val.info = SUPPORTED[first]
                /\ ~IsOk(result) => /\ result.kind = "DeviceOpenFailed"
                                    /\ result.val[1] = SUPPORTED[first].name
                /\ \A k \in 3..Len(sent) :
                       device.api.val[sent[k][2]].pid = SUPPORTED[first].pid

\* the model matches two descriptors and only the second one's PID is listed:
\* the first is chosen and its open finds no device
C22_ChosenPidNotEnumerated ==
    /\ op.name = "detect"
    /\ Enumerable
    /\ ModelMatches = {1, 2}
    /\ EnumeratedPids = {694}
    /\ result = DeviceOpenFailed("Blade16", NoMatchingDevice)

\* no descriptor matches the model of an unlisted laptop
C22_UnlistedModel ==
    /\ op.name = "detect"
    /\ Enumerable
    /\ result.kind = "UnsupportedModel"
    /\ result.val[2] = {671, 694}

\* C23: enumerate fails with NoDevicesFound when no HID device has vendor
\* 0x1532, without reading the platform model; otherwise it reads the model
\* and returns the set of PIDs and the model; a failed model read propagates as
\* ModelDetectionFailed, and a model that does not begin with RZ09- yields
\* InvalidModel.  (A build for a platform without a model read returns
\* UnsupportedPlatform; hidapi failing to start returns its error.)
C23_EnumerateOutcomes ==
    op.name = "enumerate"
    => IF ~IsOk(device.api) THEN result.kind = ErrHid
       ELSE IF EnumeratedPids = {}
       THEN result = NoDevicesFound /\ sent = <<<<"device_list", 0>>>>
       ELSE /\ sent = <<<<"device_list", 0>>, <<"read_device_model", 0>>>>
            /\ IF device.platform = "other" THEN result = UnsupportedPlatform
               ELSE IF ~IsOk(device.sku) THEN result.kind = "ModelDetectionFailed"
               ELSE IF SubSeq(device.sku.val, 1, 5) # <<"R", "Z", "0", "9", "-">>
               THEN result.kind = "InvalidModel"
               ELSE result = Ok([pids |-> EnumeratedPids, model |-> PlatformModel])

\* two HID interfaces of one product are listed and its PID is returned once
C23_PidsDeduplicated ==
    /\ op.name = "enumerate"
    /\ IsOk(device.api)
    /\ Len(device.api.val) = 2
    /\ device.api.val[1].vendor = 5426 /\ device.api.val[2].vendor = 5426
    /\ IsOk(result)
    /\ result.val.pids = {671}
    /\ Len(result.val.model) = 10

\* only a device of another vendor is listed
C23_NoRazerDevice ==
    /\ op.name = "enumerate"
    /\ IsOk(device.api)
    /\ Len(device.api.val) = 1
    /\ result = NoDevicesFound

\* the candidate paths of descriptor desc: vendor 0x1532 and its PID
PathsOf(desc) ==
    {i \in 1..Len(device.api.val) :
       device.api.val[i].vendor = 5426 /\ device.api.val[i].pid = desc.pid}

\* a path that opens and accepts the probe
Usable(i) == device.api.val[i].open = <<>> /\ device.api.val[i].probe = <<>>

\* the error a path that is not usable gives
ErrorOf(i) ==
    IF device.api.val[i].open # <<>> THEN device.api.val[i].open
    ELSE device.api.val[i].probe

\* C24: Device::new walks the paths of (0x1532, descriptor PID) in the order
\* of the list: each is opened and, when it opened, probed with 91 zero bytes;
\* the first path that opens and accepts the probe is kept and no later path
\* is tried; when none does it fails with DeviceOpenFailed whose reason is the
\* error of the last path tried, or "no matching device found" when there was
\* no candidate.
C24_FirstUsablePathKept ==
    op.name = "new" /\ IsOk(device.api)
    => LET desc == op.args[1]
           C == PathsOf(desc)
           W == {i \in C : Usable(i)}
           tried == {sent[k][2] : k \in 1..Len(sent)}
       IN  /\ \A k \in 1..Len(sent) :
                 /\ sent[k][1] \in {"open_path", "send_feature_report"}
                 /\ sent[k][1] = "send_feature_report"
                      => sent[k][3] = [b \in 1..91 |-> 0]
                 /\ \A j \in 1..(k - 1) : sent[j][2] <= sent[k][2]
           /\ \A i \in tried :
                 /\ \E k \in 1..Len(sent) : sent[k] = <<"open_path", i>>
                 /\ (\E k \in 1..Len(sent) : sent[k][1] = "send_feature_report"
                                               /\ sent[k][2] = i)
                      <=> device.api.val[i].open = <<>>
           /\ IF W # {}
              THEN LET w == CHOOSE i \in W : \A j \in W : i <= j
                   IN  /\ result = Ok([info |-> desc, path |-> w])
                       /\ tried = {i \in C : i <= w}
              ELSE IF C = {}
              THEN result = DeviceOpenFailed(desc.name, NoMatchingDevice) /\ sent = <<>>
              ELSE LET l == CHOOSE i \in C : \A j \in C : j <= i
                   IN  /\ result = DeviceOpenFailed(desc.name, ErrorOf(l))
                       /\ tried = C

\* two usable paths: the first is kept and the second is not touched
C24_SecondPathNotTried ==
    /\ op.name = "new"
    /\ IsOk(device.api)
    /\ PathsOf(op.args[1]) = {1, 2}
    /\ Usable(1) /\ Usable(2)
    /\ IsOk(result)
    /\ result.val.path = 1
    /\ Len(sent) = 2

\* two paths fail differently: the reason is the second one's error
C24_LastErrorReported ==
    /\ op.name = "new"
    /\ IsOk(device.api)
    /\ PathsOf(op.args[1]) = {1, 2}
    /\ device.api.val[1].open = <<"Permission", "denied">>
    /\ device.api.val[2].probe = <<"Invalid", "argument">>
    /\ result = DeviceOpenFailed(op.args[1].name, <<"Invalid", "argument">>)

\* the text an error of detection carries from hidapi or the file system
TextOf(e) ==
    IF e.kind = "DeviceOpenFailed" THEN e.val[2]
    ELSE IF e.kind \in {"ModelDetectionFailed", ErrHid} THEN e.val[1]
    ELSE <<>>

\* s ends with t
EndsWith(s, t) == Len(t) <= Len(s) /\ SubSeq(s, Len(s) - Len(t) + 1, Len(s)) = t

\* C26, as stated: on Linux, when detection fails the facade reports
\* PermissionDenied if a USB device of vendor 1532 exists under
\* /sys/bus/usb/devices and DeviceNotFound otherwise.
C26_SysDecides ==
    op.name = "facade_detect" /\ ~IsOk(result) /\ device.platform = "linux"
    => result = IF device.usb THEN Err("PermissionDenied") ELSE Err("DeviceNotFound")

\* C26, amended: on Linux, when detection fails the facade reports
\* DeviceNotFound if the error's text says "Invalid argument"; otherwise
\* PermissionDenied if it says "Permission denied"; otherwise PermissionDenied
\* if a USB device of vendor 1532 exists under /sys/bus/usb/devices and
\* DeviceNotFound if none does.
C26_MessageThenSys ==
    op.name = "facade_detect" /\ ~IsOk(result) /\ device.platform = "linux"
    => LET text == TextOf(op.args[1])
       IN  IF EndsWith(text, <<"Invalid", "argument">>)
           THEN result = Err("DeviceNotFound")
           ELSE IF EndsWith(text, <<"Permission", "denied">>)
           THEN result = Err("PermissionDenied")
           ELSE result = IF device.usb THEN Err("PermissionDenied")
                         ELSE Err("DeviceNotFound")

\* a Razer USB device is under /sys, every path refused the probe with
\* "Invalid argument", and the facade reports DeviceNotFound
C26_InvalidArgumentWithDevice ==
    /\ op.name = "facade_detect"
    /\ device.platform = "linux"
    /\ device.usb
    /\ op.args # <<>>
    /\ op.args[1].kind = "DeviceOpenFailed"
    /\ result = Err("DeviceNotFound")

\* no marker in the message: /sys decides, and a device is there
C26_SysSaysPermission ==
    /\ op.name = "facade_detect"
    /\ device.platform = "linux"
    /\ device.usb
    /\ op.args = <<NoDevicesFound>>
    /\ result = Err("PermissionDenied")

\* the position of the first step named n in s, 0 when there is none
FirstStep(s, n) ==
    LET at == {k \in 1..Len(s) : s[k][1] = n}
    IN  IF at = {} THEN 0 ELSE CHOOSE k \in at : \A j \in at : k <= j

\* the catalog descriptors with the PID the configuration had cached
CachedDescriptors(config) ==
    IF config.loads /\ config.cached_pid # <<>>
    THEN {i \in 1..Len(SUPPORTED) : SUPPORTED[i].pid = config.cached_pid[1]}
    ELSE {}

\* C21: detect_with_cache first loads the configuration; a cached PID is tried
\* before anything else and, if a path of it opens, that device is returned
\* without full detection and without a cache write; when the cached open
\* fails or no PID is cached, full detection runs next, and when it succeeds
\* the detected PID is handed to set_cached_device as the last step (it is
\* then the cached PID, provided the configuration loads and can be saved).
C21_CacheFirstThenDetect ==
    op.name = "detect_with_cache"
    => LET before == op.args[1]
           D == CachedDescriptors(before)
           full == FirstStep(sent, "Device::detect")
       IN  /\ sent[1] = <<"load", 0>>
           /\ D # {} => /\ sent[2] = <<"Device::new", before.cached_pid[1]>>
                        /\ full # 0 => full > 2
           /\ D = {} => full = 2
           /\ IF D # {} /\ IsOk(device.api)
                 /\ \E i \in PathsOf([pid |-> before.cached_pid[1]]) : Usable(i)
              THEN /\ IsOk(result)
                   /\ result.val.info.pid = before.cached_pid[1]
                   /\ full = 0
                   /\ FirstStep(sent, "set_cached_device") = 0
                   /\ device.config = before
              ELSE /\ full # 0
                   /\ \A k \in 3..(full - 1) :
                          sent[k][1] \in {"open_path", "send_feature_report"}
                   /\ IF IsOk(result)
                      THEN IF before.loads
                           THEN /\ sent[Len(sent)]
                                     = <<"set_cached_device", result.val.info.pid>>
                                /\ before.writable
                                     => device.config.cached_pid
                                          = <<result.val.info.pid>>
                                /\ ~before.writable => device.config = before
                           ELSE /\ FirstStep(sent, "set_cached_device") = 0
                                /\ device.config = before
                      ELSE /\ FirstStep(sent, "set_cached_device") = 0
                           /\ device.config = before

\* the cached PID's device is gone: full detection found the other product
\* and its PID replaced the cached one
C21_CacheRewritten ==
    /\ op.name = "detect_with_cache"
    /\ op.args[1].cached_pid = <<694>>
    /\ FirstStep(sent, "Device::new") = 2
    /\ FirstStep(sent, "Device::detect") > 2
    /\ IsOk(result)
    /\ result.val.info.pid = 671
    /\ device.config.cached_pid = <<671>>

\* the cached PID's device opened: nothing was enumerated
C21_CachedOpenUsed ==
    /\ op.name = "detect_with_cache"
    /\ op.args[1].cached_pid = <<694>>
    /\ IsOk(result)
    /\ result.val.info.pid = 694
    /\ FirstStep(sent, "Device::detect") = 0
    /\ device.platform = "other"

\* C38: the facade's detect fails only with DeviceNotFound or PermissionDenied:
\* whatever error the library's detection gave (NoDevicesFound, InvalidModel,
\* UnsupportedModel, DeviceOpenFailed, ...) is replaced by one of the two, and
\* a text saying "Invalid argument" gives DeviceNotFound before the permission
\* words or /sys are looked at.
C38_OnlyTwoFacadeErrors ==
    op.name = "facade_detect"
    => /\ IsOk(result) <=> op.args = <<>>
       /\ ~IsOk(result)
            => /\ result \in {Err("DeviceNotFound"), Err("PermissionDenied")}
               /\ op.args[1].kind \in {"NoDevicesFound", "UnsupportedPlatform",
                                       "ModelDetectionFailed", "InvalidModel",
                                       "UnsupportedModel", "DeviceOpenFailed", ErrHid}
               /\ EndsWith(TextOf(op.args[1]), <<"Invalid", "argument">>)
                    => result = Err("DeviceNotFound")

\* an unlisted model: UnsupportedModel became one of the facade's two errors
C38_UnsupportedModelReplaced ==
    /\ op.name = "facade_detect"
    /\ op.args # <<>>
    /\ op.args[1].kind = "UnsupportedModel"
    /\ result = Err("PermissionDenied")

\* "Invalid argument" on a build without /sys and on one with a device there
C38_InvalidArgumentOnWindows ==
    /\ op.name = "facade_detect"
    /\ device.platform = "windows"
    /\ op.args # <<>>
    /\ EndsWith(TextOf(op.args[1]), <<"Invalid", "argument">>)
    /\ result = Err("DeviceNotFound")

\* full detection would return a device on this machine
DetectionWorks ==
    /\ Enumerable
    /\ ModelMatches # {}
    /\ LET first == CHOOSE i \in ModelMatches : \A j \in ModelMatches : i <= j
       IN  \E i \in PathsOf(SUPPORTED[first]) : Usable(i)

\* C39: detect_with_cache changes the configuration only after a successful
\* full detection, and then only the cached PID: a cache hit, a failed full
\* detection (a stale cached PID included) and a cached PID that no descriptor
\* has leave it as it was, the last going straight to full detection; a
\* configuration that does not load or cannot be saved does not make detection
\* fail.
C39_CacheFrame ==
    op.name = "detect_with_cache"
    => LET before == op.args[1]
           full == FirstStep(sent, "Device::detect")
       IN  /\ device.config # before
                => /\ IsOk(result)
                   /\ full # 0
                   /\ device.config
                        = [before EXCEPT !.cached_pid = <<result.val.info.pid>>]
           /\ full = 0 => IsOk(result) /\ device.config = before
           /\ ~IsOk(result) => device.config = before
           /\ before.loads /\ before.cached_pid # <<>> /\ CachedDescriptors(before) = {}
                => /\ sent[2] = <<"Device::detect", 0>>
                   /\ FirstStep(sent, "Device::new") = 0
           /\ ~before.loads \/ ~before.writable
                => /\ IsOk(result) <=> DetectionWorks
                   /\ ~IsOk(result)
                        => result \in {Err("DeviceNotFound"), Err("PermissionDenied")}

\* full detection failed and the stale cached PID is still there
C39_StaleCacheKept ==
    /\ op.name = "detect_with_cache"
    /\ op.args[1].cached_pid = <<694>>
    /\ FirstStep(sent, "Device::detect") > 2
    /\ ~IsOk(result)
    /\ device.config.cached_pid = <<694>>

\* the configuration cannot be saved and its PID is in no descriptor: the
\* device is returned all the same
C39_StoreFailureIgnored ==
    /\ op.name = "detect_with_cache"
    /\ op.args[1].cached_pid = <<4660>>
    /\ ~op.args[1].writable
    /\ IsOk(result)
    /\ sent[Len(sent)][1] = "set_cached_device"
    /\ device.config = op.args[1]

\* bit k of byte b
BitOf(b, k) == (b \div (2 ^ k)) % 2

\* C31: the byte at offset 88 of a newly built packet's serialization is the
\* XOR of the bytes at offsets 2 to 87 (remaining_packets, protocol_type,
\* data_size, command_class, command_id and the 80 argument bytes): each of its
\* bits is the parity of that bit over those bytes; status, id, crc and
\* reserved are not part of it.
C31_CrcOverBytes2To87 ==
    op.name = "serialize"
    => /\ Len(result.val) = 90
       /\ \A k \in 0..7 :
            BitOf(result.val[89], k)
              = Cardinality({i \in 3..88 : BitOf(result.val[i], k) = 1}) % 2
       /\ result.val[89] = op.args[1].crc

\* a packet with id 255 and three argument bytes has a CRC other than 0
C31_CrcWithId255 ==
    /\ op.name = "serialize"
    /\ result.val[2] = 255
    /\ result.val[6] = 3
    /\ result.val[89] # 0

\* C32: Packet::try_from fails with its data-size error whenever the slice is
\* not 90 bytes long, shorter or longer, and decodes a slice of 90 bytes.
C32_WrongLengthRejected ==
    op.name = "try_from"
    => IF Len(op.args[1]) = 90 THEN IsOk(result)
       ELSE result = Err(ErrInvalidRawData)

\* a slice of 91 bytes was refused
C32_LongerSliceRejected ==
    /\ op.name = "try_from"
    /\ Len(op.args[1]) = 91
    /\ ~IsOk(result)

\* a slice of 50 bytes was refused
C32_ShorterSliceRejected ==
    /\ op.name = "try_from"
    /\ Len(op.args[1]) = 50
    /\ ~IsOk(result)

-----------------------------------------------------------------------------
(* types.rs: the enumerations between their variants and their wire bytes. *)

\* the enumerations that implement TryFrom<u8>
WireEnums ==
    {"PerfMode", "FanMode", "CpuBoost", "GpuBoost", "MaxFanSpeedMode",
     "LightsAlwaysOn", "BatteryCare"}

\* the variants of an enumeration
VariantsOf(t) ==
    CASE t = "PerfMode" -> PerfModes
      [] t = "FanMode" -> FanModes
      [] t = "CpuBoost" -> CpuBoosts
      [] t = "GpuBoost" -> GpuBoosts
      [] t = "MaxFanSpeedMode" -> MaxFanSpeedModes
      [] t = "LightsAlwaysOn" -> LightsAlwaysOnModes
      [] t = "BatteryCare" -> BatteryCares

\* `variant as u8`
AsU8(t, v) ==
    CASE t = "PerfMode" -> PerfModeByte(v)
      [] t = "FanMode" -> FanModeByte(v)
      [] t = "CpuBoost" -> CpuBoostByte(v)
      [] t = "GpuBoost" -> GpuBoostByte(v)
      [] t = "MaxFanSpeedMode" -> MaxFanSpeedModeByte(v)
      [] t = "LightsAlwaysOn" -> LightsAlwaysOnByte(v)
      [] t = "BatteryCare" -> BatteryCareByte(v)

\* T::try_from(byte)
TryFromU8(t, b) ==
    CASE t = "PerfMode" -> PerfModeTryFrom(b)
      [] t = "FanMode" -> FanModeTryFrom(b)
      [] t = "CpuBoost" -> CpuBoostTryFrom(b)
      [] t = "GpuBoost" -> GpuBoostTryFrom(b)
      [] t = "MaxFanSpeedMode" -> MaxFanSpeedModeTryFrom(b)
      [] t = "LightsAlwaysOn" -> LightsAlwaysOnTryFrom(b)
      [] t = "BatteryCare" -> BatteryCareTryFrom(b)

\* every value of a u8
U8 == 0..255

InitTypes ==
    /\ device = <<>>
    /\ features = {}
    /\ op = NoCall
    /\ sent = <<>>
    /\ result = Ok(<<>>)
    /\ callers = [c \in Callers |-> Resting]

\* `variant as u8`, as the setters do when they build their arguments
ToByte ==
    /\ Idle
    /\ \E t \in WireEnums : \E v \in VariantsOf(t) :
         /\ op' = [name |-> "as_u8", args |-> <<t, v>>]
         /\ result' = Ok(<<AsU8(t, v)>>)
    /\ UNCHANGED <<device, features, sent, callers>>

\* T::try_from on the byte a variant was just written as
BackFromByte ==
    /\ op.name = "as_u8"
    /\ op' = [name |-> "round_trip", args |-> op.args]
    /\ result' = TryFromU8(op.args[1], result.val[1])
    /\ UNCHANGED <<device, features, sent, callers>>

\* T::try_from on a byte read from a response, as the getters do
FromByte ==
    /\ Idle
    /\ \E t \in WireEnums, b \in U8 :
         /\ op' = [name |-> "try_from_u8", args |-> <<t, b>>]
         /\ result' = TryFromU8(t, b)
    /\ UNCHANGED <<device, features, sent, callers>>

NextTypes ==
    \/ TakeResult
    \/ ToByte \/ BackFromByte \/ FromByte

SpecTypes == InitTypes /\ [][NextTypes]_vars

-----------------------------------------------------------------------------
(* Typed enumerations and their wire bytes.                                *)

\* the wire bytes of the variants, as the protocol documents them
WireBytes ==
    {<<"PerfMode", "Balanced", 0>>, <<"PerfMode", "Custom", 4>>,
     <<"PerfMode", "Silent", 5>>,
     <<"FanMode", "Auto", 0>>, <<"FanMode", "Manual", 1>>,
     <<"CpuBoost", "Low", 0>>, <<"CpuBoost", "Medium", 1>>,
     <<"CpuBoost", "High", 2>>, <<"CpuBoost", "Boost", 3>>,
     <<"CpuBoost", "Overclock", 4>>,
     <<"GpuBoost", "Low", 0>>, <<"GpuBoost", "Medium", 1>>,
     <<"GpuBoost", "High", 2>>,
     <<"MaxFanSpeedMode", "Disable", 0>>, <<"MaxFanSpeedMode", "Enable", 2>>,
     <<"LightsAlwaysOn", "Disable", 0>>, <<"LightsAlwaysOn", "Enable", 3>>,
     <<"BatteryCare", "Disable", 80>>, <<"BatteryCare", "Enable", 208>>}

\* C33: every variant of the seven enumerations is written as its documented
\* byte and read back from that byte as itself, and every byte that is no
\* variant's byte is refused with the invalid-value error.
C33_EnumRoundTrip ==
    /\ op.name = "as_u8" =>
          /\ IsOk(result)
          /\ <<op.args[1], op.args[2], result.val[1]>> \in WireBytes
    /\ op.name = "round_trip" => result = Ok(<<op.args[2]>>)
    /\ op.name = "try_from_u8" =>
          LET named == {w \in WireBytes : w[1] = op.args[1] /\ w[3] = op.args[2]}
          IN  IF named = {}
              THEN result = Err(ErrInvalidValue)
              ELSE /\ IsOk(result)
                   /\ \A w \in named : result.val = <<w[2]>>

\* BatteryCare::Enable came back from its byte 0xd0
C33_BatteryCareEnableBack ==
    /\ op.name = "round_trip"
    /\ op.args[1] = "BatteryCare"
    /\ op.args[2] = "Enable"
    /\ result = Ok(<<"Enable">>)

\* 0xd1 is refused as a BatteryCare
C33_StrayByteRefused ==
    /\ op.name = "try_from_u8"
    /\ op.args[1] = "BatteryCare"
    /\ op.args[2] = 209
    /\ result = Err(ErrInvalidValue)

-----------------------------------------------------------------------------
(* Correlation before status.                                              *)

\* the errors the status match of ensure_matches_report raises
StatusErrors ==
    {ErrCommandNotSupported, ErrDeviceBusy, ErrCommandFailed, ErrCommandTimeout,
     ErrUnknownStatus}

\* the response answers the request: same command, same id, and the same
\* remaining_packets unless the command is one of the two excepted reads
BelongsToRequest(self, report) ==
    /\ SameExchange(self, report)
    /\ \/ self.remaining_packets = report.remaining_packets
       \/ (report.command_class * 256) + report.command_id \in {1938, 1935}

\* C34: ensure_matches_report compares the response with the request before
\* it decodes the status: a response that does not belong to the request is a
\* ResponseMismatch also when its status is Busy, Failure, Timeout,
\* NotSupported or unknown, and a status error is reported only for a response
\* that belongs to the request.
C34_CorrelationBeforeStatus ==
    op.name = "ensure_matches_report" =>
        /\ (/\ ~BelongsToRequest(MatchedResponse, MatchedReport)
            /\ MatchedResponse.status # 2)
              => result = Err(ErrResponseMismatch)
        /\ result.kind \in StatusErrors
              => BelongsToRequest(MatchedResponse, MatchedReport)

\* a SET_PERF_MODE answer with status Timeout whose remaining_packets alone
\* differs was reported as a mismatch, not as a timeout
C34_TimeoutOfAnotherExchange ==
    /\ op.name = "ensure_matches_report"
    /\ SameExchange(MatchedResponse, MatchedReport)
    /\ (MatchedReport.command_class * 256) + MatchedReport.command_id = 3330
    /\ MatchedResponse.remaining_packets # MatchedReport.remaining_packets
    /\ MatchedResponse.status = 4
    /\ result = Err(ErrResponseMismatch)

\* a Busy answer that belongs to the request was reported as DeviceBusy
C34_BusyOfThisExchange ==
    /\ op.name = "ensure_matches_report"
    /\ BelongsToRequest(MatchedResponse, MatchedReport)
    /\ MatchedResponse.status = 1
    /\ result = Err(ErrDeviceBusy)

-----------------------------------------------------------------------------
(* Manual fan implies Balanced on the device.                              *)

\* no zone holds fan mode Manual beside perf mode Silent or Custom
ManualOnlyInBalanced(d) ==
    \A z \in {1, 2} :
        d.zone[z].fan = FanModeByte("Manual")
            => d.zone[z].perf \notin {PerfModeByte("Silent"), PerfModeByte("Custom")}

\* C35 (as stated): after any sequence of library operations no zone holds
\* fan mode Manual beside perf mode Silent or Custom.
C35_ManualImpliesBalanced == ManualOnlyInBalanced(device)

\* C35: every library operation other than custom_command, whether it
\* succeeds, fails or is applied to one zone only, leaves a device on which
\* no zone holds Manual beside Silent or Custom in such a state.
C35_TypedOperationsKeepManualInBalanced ==
    [][(ManualOnlyInBalanced(device) /\ op'.name # "custom_command")
          => ManualOnlyInBalanced(device')]_vars

\* set_fan_mode(Manual) wrote zone 1 and failed on zone 2: zone 1 is
\* (Balanced, Manual), zone 2 still (Balanced, Auto)
C35_PartialManualStaysBalanced ==
    /\ op.name = "set_fan_mode"
    /\ op.args = <<"Manual">>
    /\ ~IsOk(result)
    /\ device.zone[1] = [perf |-> 0, fan |-> 1]
    /\ device.zone[2] = [perf |-> 0, fan |-> 0]
    /\ ManualOnlyInBalanced(device)

-----------------------------------------------------------------------------
(* Recovery from zone disagreement.                                        *)

\* the operations that begin with a get_perf_mode, and get_perf_mode itself
PreflightedOperations ==
    {"get_perf_mode", "set_cpu_boost", "set_gpu_boost", "set_fan_rpm",
     "set_fan_mode", "set_max_fan_speed_mode"}

\* the two zones hold different (perf, fan) bytes
ZonesDisagree(d) == d.zone[1] # d.zone[2]

\* C36: a call made while the two zones disagree: get_perf_mode and the
\* setters that begin with it (set_cpu_boost, set_gpu_boost, set_fan_rpm,
\* set_fan_mode, set_max_fan_speed_mode) fail having sent nothing but 0x0d82
\* reads and leave the device as it was; set_perf_mode is not refused, it
\* starts with its 0x0d02 for zone 1, and when it returns success the zones
\* agree again on (mode, Auto).
C36_DisagreementBlocksAllButSetPerfMode ==
    [][(Idle /\ ZonesDisagree(device)) =>
          /\ op'.name \in PreflightedOperations =>
                /\ ~IsOk(result')
                /\ \A i \in 1..Len(sent') : sent'[i].command = GET_PERF_MODE
                /\ device' = device
          /\ op'.name = "set_perf_mode" =>
                /\ sent' # <<>>
                /\ IsPrefix(Packets(sent'), PerfWrites(PerfModeByte(op'.args[1]), 0))
                /\ IsOk(result') =>
                      /\ Packets(sent') = PerfWrites(PerfModeByte(op'.args[1]), 0)
                      /\ ~ZonesDisagree(device')
                      /\ device'.zone[1] = ZoneBytes(op'.args[1], "Auto")]_vars

\* set_fan_mode(Auto) on zones (Balanced, Manual) and (Balanced, Auto): both
\* reads were answered, the call failed on the comparison and sent no 0x0d02
C36_SetFanModeRefusedOnDisagreement ==
    /\ op.name = "set_fan_mode"
    /\ op.args = <<"Auto">>
    /\ device.zone[1] = [perf |-> 0, fan |-> 1]
    /\ device.zone[2] = [perf |-> 0, fan |-> 0]
    /\ Packets(sent) = PerfReads
    /\ Decodes(sent[1])
    /\ Decodes(sent[2])
    /\ PairOf(sent[1]) # PairOf(sent[2])
    /\ result = Err(ErrPreconditionFailed)

-----------------------------------------------------------------------------
(* apply_setting of Fan { mode, rpm: Some(r) }: the mode, then the speed.  *)

\* the packets of a set_fan_mode(mode) that runs to its end
FanModePackets(mode) == PerfReads \o PerfWrites(0, FanModeByte(mode))

\* both zones hold (Balanced, mode)
FanModeApplied(d, mode) ==
    /\ d.zone[1] = ZoneBytes("Balanced", mode)
    /\ d.zone[2] = ZoneBytes("Balanced", mode)

\* C37: apply_setting of Fan{mode, rpm: Some(r)} runs set_fan_mode and then
\* set_fan_rpm: the packets are those of set_fan_mode followed by those of
\* set_fan_rpm, nothing of set_fan_rpm is sent unless set_fan_mode went
\* through, and when the speed step then fails, on r out of range without a
\* packet or on mode Auto after its reads, the call returns an error and the
\* zones hold the fan mode that was set.
C37_FanModeThenRpm ==
    (op.name = "apply_setting" /\ op.args[1] = "Fan" /\ op.args[3] # <<>>) =>
        LET mode == op.args[2]
            r == op.args[3][1]
        IN  /\ IsPrefix(Packets(sent),
                        FanModePackets(mode) \o PerfReads \o RpmWrites(RpmByte(r)))
            /\ Len(sent) > 4 =>
                  /\ IsOk(sent[3].reply)
                  /\ IsOk(sent[4].reply)
                  /\ FanModeApplied(device, mode)
            /\ ~FanRpmInRange(r) =>
                  /\ ~IsOk(result)
                  /\ Len(sent) <= 4
                  /\ (Len(sent) = 4 /\ result = Err(ErrPreconditionFailed))
                        => FanModeApplied(device, mode)
            /\ mode = "Auto" =>
                  /\ ~IsOk(result)
                  /\ ~Issued(sent, SET_FAN_RPM)
            /\ IsOk(result) =>
                  /\ mode = "Manual"
                  /\ FanRpmInRange(r)
                  /\ Len(sent) = 8

\* Fan{Manual, Some(1999)} on a device in (Balanced, Auto): the four packets
\* of set_fan_mode went through, the speed was refused, and both zones are
\* left in (Balanced, Manual)
C37_ManualKeptAfterRpmRefused ==
    /\ op.name = "apply_setting"
    /\ op.args = <<"Fan", "Manual", <<1999>>>>
    /\ Packets(sent) = FanModePackets("Manual")
    /\ PairOf(sent[1]) = <<"Balanced", "Auto">>
    /\ result = Err(ErrPreconditionFailed)
    /\ FanModeApplied(device, "Manual")

\* Fan{Auto, Some(2500)} on a device in (Balanced, Manual): set_fan_mode went
\* through, set_fan_rpm read (Balanced, Auto) and refused, and the fan is
\* left in Auto
C37_AutoKeptAfterRpmRefused ==
    /\ op.name = "apply_setting"
    /\ op.args = <<"Fan", "Auto", <<2500>>>>
    /\ Packets(sent) = FanModePackets("Auto") \o PerfReads
    /\ PairOf(sent[1]) = <<"Balanced", "Manual">>
    /\ PairOf(sent[5]) = <<"Balanced", "Auto">>
    /\ result = Err(ErrPreconditionFailed)
    /\ FanModeApplied(device, "Auto")

-----------------------------------------------------------------------------
(* The getters against a controller that declares fewer argument bytes     *)
(* than it wrote: every answer is Successful and correlated, its args      *)
(* buffer holds the whole answer, and its data_size is what the laptop     *)
(* declares.                                                               *)

\* the data_size bytes tried
DeclaredSizes == 0..4

InitShort ==
    /\ device \in {[zone |-> [z \in {1, 2} |-> m],
                    logo |-> [power |-> p, pattern |-> 2],
                    rpm |-> [z \in {1, 2} |-> q],
                    regs |-> StartRegs,
                    faults |-> {"cut"},
                    links |-> {"up"},
                    declares |-> n]
                     : m \in StartZones, p \in {0, 1}, q \in StartRpm,
                       n \in DeclaredSizes}
    /\ features = AllFeatures
    /\ op = NoCall
    /\ sent = <<>>
    /\ result = Ok(<<>>)
    /\ callers = [c \in Callers |-> Resting]

NextShort ==
    \/ TakeResult
    \/ GetPerfMode \/ GetCpuBoost \/ GetGpuBoost \/ GetFanRpm
    \/ GetMaxFanSpeedMode \/ GetLogoMode \/ GetKeyboardBrightness
    \/ GetLightsAlwaysOn \/ GetBatteryCare

SpecShort == InitShort /\ [][NextShort]_vars

-----------------------------------------------------------------------------
(* Getters and the declared data_size.                                     *)

\* the getters of command.rs
Getters ==
    {"get_perf_mode", "get_cpu_boost", "get_gpu_boost", "get_fan_rpm",
     "get_max_fan_speed_mode", "get_logo_mode", "get_keyboard_brightness",
     "get_lights_always_on", "get_battery_care"}

\* how many argument bytes a getter's decoding reaches into
BytesRead(getter) ==
    CASE getter = "get_perf_mode" -> 4
      [] getter \in {"get_cpu_boost", "get_gpu_boost", "get_fan_rpm",
                     "get_logo_mode", "get_keyboard_brightness"} -> 3
      [] OTHER -> 1

\* C40 (as stated): a getter answered with fewer declared argument bytes than
\* it reads ends with an error result.
C40_ShortAnswerIsAnError ==
    (op.name \in Getters /\ device.declares < BytesRead(op.name))
        => (~IsOk(result) /\ result.kind # ErrPanic)

\* C40, as the code has it: a getter returns a value only when the answer
\* declares at least the bytes the getter reads, so no value comes from bytes
\* past data_size; answered with fewer, the getter returns nothing at all:
\* the index into get_args() panics.
C40_NoValueFromUndeclaredBytes ==
    op.name \in Getters =>
        IF device.declares < BytesRead(op.name)
        THEN result = Err(ErrPanic)
        ELSE IsOk(result)

\* get_battery_care was answered Successful with data_size 0 while the args
\* buffer held 0xd0, and panicked
C40_BatteryCareReadPanicked ==
    /\ op.name = "get_battery_care"
    /\ device.declares = 0
    /\ device.regs.battery = 208
    /\ Len(sent) = 1
    /\ sent[1].frame = <<StatusSuccessful, 0>>
    /\ sent[1].reply = Ok(<<>>)
    /\ result = Err(ErrPanic)

\* get_perf_mode was answered with data_size 3: the perf mode decoded and
\* the index of the fan mode panicked
C40_PerfModeReadPanicked ==
    /\ op.name = "get_perf_mode"
    /\ device.declares = 3
    /\ Len(sent) = 1
    /\ Len(sent[1].reply.val) = 3
    /\ result = Err(ErrPanic)

=============================================================================
